---- MODULE Spec2Model ----
(***************************************************************************)
(* Conductor: the orchestration kernel.                                    *)
(*                                                                         *)
(*   - the task classifier      (src/agents/mock-coordinator.ts)           *)
(*   - the scope resolver       (src/core/runtime.ts, src/core/manifests.ts)*)
(*   - the audit logger         (src/core/logger.ts)                       *)
(*   - the pipeline orchestrator (src/core/orchestrator.ts) and its stages *)
(*     (src/agents/mock-product.ts, mock-dev.ts, mock-qa.ts)               *)
(*                                                                         *)
(* Three specifications share the module:                                  *)
(*   Spec          the orchestrator running tasks against the audit log,   *)
(*                 with storage faults;                                    *)
(*   SpecClassify  classify's routing decision on bounded task inputs;     *)
(*   SpecScope     filterTools / resolveScope on bounded manifests;        *)
(*   SpecInterleaved  the orchestrator with one process per task;          *)
(*   SpecSpawn     spawnAgent called repeatedly while the clock advances;  *)
(*   SpecParse     parseJSON on bounded response texts.                    *)
(***************************************************************************)
EXTENDS Integers, Sequences, FiniteSets, TLC

VARIABLES
    \* ---- Spec: orchestrator + audit log ----
    task,            \* task id -> the Task handed to run() (type hint, body)
    pc,              \* task id -> position of run() for that task
    running,         \* the task whose run() is on the (single) JS thread, or NoTask
    logsDir,         \* does <projectRoot>/logs exist
    stream,          \* task id -> contents of logs/<taskId>.jsonl, one record per line
    stderr,          \* number of "[conductor] audit write failed" lines written
    faults,          \* storage faults injected so far (bounded by MaxFaults)
    issued,          \* task id -> the events run() has handed to logEvent, in call order
    lastLog,         \* the last logEvent call: its event and how it ended
    locals,          \* task id -> run()'s local bindings (ids, classification, spec, outputs)
    result,          \* task id -> the ExecutionResult run() returned, or NoResult
    \* ---- SpecClassify ----
    clsTask,         \* the task handed to classify
    clsResult,       \* what classify returned (NoResult before the call)
    \* ---- SpecParse ----
    psInput,         \* the raw text and validator handed to parseJSON, and how the text was built
    psResult,        \* what parseJSON returned and what validate was called with
    \* ---- SpecScope ----
    manifest,        \* the manifest handed to filterTools / resolveScope
    scope,           \* the ResolvedScope (NoResult before the call)
    \* ---- SpecSpawn ----
    fsReadable,      \* the contract files (systemPromptPath) that can be read, each with
                     \* the lines its text ends with
    now,             \* Date.now()
    spawned          \* the spawnAgent calls so far: arguments and what came back

runVars   == <<task, pc, running, logsDir, stream, stderr, faults, issued, lastLog, locals, result>>
parseVars == <<psInput, psResult>>
clsVars   == <<clsTask, clsResult, parseVars>>
spawnVars == <<fsReadable, now, spawned>>
scopeVars == <<manifest, scope, spawnVars>>
vars      == <<task, pc, running, logsDir, stream, stderr, faults, issued, lastLog, locals,
               result, clsTask, clsResult, psInput, psResult, manifest, scope, fsReadable, now,
               spawned>>

NoResult == [none |-> TRUE]

(***************************************************************************)
(* Bounds of the model.                                                    *)
(***************************************************************************)
MaxBodyLen == 3      \* enumerated task bodies have at most this many tokens
MaxTools   == 2      \* enumerated manifests declare at most this many tools
MaxFaults  == 1      \* storage faults injected over a whole behaviour
MaxSpawns  == 2      \* spawnAgent calls in a behaviour
MaxClock   == 1      \* milliseconds the clock advances over a behaviour

(***************************************************************************)
(* Task bodies.  A body is the sequence of its lexemes: a word is a        *)
(* maximal run of \w characters (lower-cased: every keyword pattern but    *)
(* the first carries /i and the first has no letters), every other         *)
(* character is a token of its own.                                        *)
(***************************************************************************)
Range(s) == {s[i] : i \in DOMAIN s}

NonWordTokens == {" ", "\n", ".", "/", "-"}

IsWord(tok) == tok \notin NonWordTokens
IsWs(tok)   == tok \in {" ", "\n"}

\* No two adjacent words: they would be one maximal \w run.
WellFormed(body) ==
    \A i \in 1..(Len(body) - 1) : ~(IsWord(body[i]) /\ IsWord(body[i + 1]))

\* word matches  prefix.*  (a keyword with no trailing \b)
StartsWith(word, prefix) ==
    /\ Len(word) >= Len(prefix)
    /\ SubSeq(word, 1, Len(prefix)) = prefix

\* body[i] \s+ body[j] : one or more whitespace tokens and nothing else between
Spaced(body, i, j) ==
    /\ i >= 1 /\ j <= Len(body) /\ j > i + 1
    /\ \A k \in (i + 1)..(j - 1) : IsWs(body[k])

\* The alternatives the keyword patterns are built from.
\*   Word:        \b(w1|w2|...)\b
\*   Pair:        \b(a1|a2)\s+(b1|b2)\b
\*   PairPrefix:  \b(a1|a2)\s+(b1|b2)     the second keyword only has to start the word
\*   Triple:      \b(a)\s+(b)\s+(c)\b
\*   Hyphenated:  \b(x)-?(y)\b
\*   FileExtension:  \.\w{1,4}$  with /m
\*   PathSegment:    \b(s1|s2)\/
\*   VerbObject:     \b(v1|v2)\s+(a\s+)?(n1|n2)
Word(words)                == [kind |-> "word", words |-> words]
Pair(firsts, seconds)      == [kind |-> "pair", firsts |-> firsts, seconds |-> seconds]
PairPrefix(firsts, seconds) == [kind |-> "pairPrefix", firsts |-> firsts, seconds |-> seconds]
Triple(a, b, c)            == [kind |-> "triple", a |-> a, b |-> b, c |-> c]
Hyphenated(x, y)           == [kind |-> "hyphenated", x |-> x, y |-> y]
FileExtension              == [kind |-> "fileExtension"]
PathSegment(segments)      == [kind |-> "pathSegment", segments |-> segments]
VerbObject(verbs, nouns)   == [kind |-> "verbObject", verbs |-> verbs, nouns |-> nouns]

\* does the alternative match somewhere in body
matches(alt, body) ==
    LET n == Len(body)
    IN  CASE alt.kind = "word" ->
                \E i \in 1..n : body[i] \in alt.words
          [] alt.kind = "pair" ->
                \E i, j \in 1..n :
                    body[i] \in alt.firsts /\ Spaced(body, i, j) /\ body[j] \in alt.seconds
          [] alt.kind = "pairPrefix" ->
                \E i, j \in 1..n :
                    /\ body[i] \in alt.firsts /\ Spaced(body, i, j)
                    /\ \E p \in alt.seconds : StartsWith(body[j], p)
          [] alt.kind = "triple" ->
                \E i, j, k \in 1..n :
                    /\ body[i] = alt.a /\ Spaced(body, i, j) /\ body[j] = alt.b
                    /\ Spaced(body, j, k) /\ body[k] = alt.c
          [] alt.kind = "hyphenated" ->
                \/ \E i \in 1..n : body[i] = alt.x \o alt.y
                \/ \E i \in 1..(n - 2) :
                       body[i] = alt.x /\ body[i + 1] = "-" /\ body[i + 2] = alt.y
          [] alt.kind = "fileExtension" ->
                \E i \in 1..(n - 1) :
                    /\ body[i] = "."
                    /\ IsWord(body[i + 1])
                    /\ Len(body[i + 1]) \in 1..4
                    /\ (i + 1 = n \/ body[i + 2] = "\n")
          [] alt.kind = "pathSegment" ->
                \E i \in 1..(n - 1) : body[i] \in alt.segments /\ body[i + 1] = "/"
          [] alt.kind = "verbObject" ->
                LET Noun(k) == \E p \in alt.nouns : StartsWith(body[k], p)
                IN  \E i, j \in 1..n :
                        /\ body[i] \in alt.verbs /\ Spaced(body, i, j)
                        /\ \/ Noun(j)
                           \/ body[j] = "a" /\ \E k \in 1..n : Spaced(body, j, k) /\ Noun(k)

\* pattern.test(body): a pattern is the set of its alternatives
test(pattern, body) == \E alt \in pattern : matches(alt, body)

TECHNICAL_PATTERNS ==
    << {FileExtension},
       {PathSegment({"src", "dist", "lib", "node_modules"})},
       {Word({"refactor", "refatore"})},
       {Word({"endpoint", "route", "api"})},
       {Word({"function", "method", "class", "interface", "module"})},
       {Word({"bug", "fix", "error", "exception", "stacktrace"}), Pair({"stack"}, {"trace"})},
       {VerbObject({"implement", "create", "add", "remove", "delete", "rename", "move"},
                   {"function", "file", "endpoint", "route", "class", "component", "test"})},
       {Word({"migrate", "migration"})},
       {Word({"import", "export", "require"})},
       {Pair({"npm", "yarn", "pnpm"}, {"install", "test", "run", "build"})},
       {Pair({"git"}, {"commit", "push", "pull", "merge", "rebase", "checkout"})},
       {Word({"docker", "container"})},
       {Word({"typescript", "javascript", "python", "rust", "go"})} >>

BUSINESS_PATTERNS ==
    << {PairPrefix({"user", "customer", "client"},
                   {"need", "want", "experience", "story", "feedback"})},
       {PairPrefix({"feature", "functionality"}, {"request", "description", "proposal"})},
       {Word({"priorit", "roadmap", "strategy", "vision"})},
       {Hyphenated("trade", "off"), Hyphenated("cost", "benefit"), Word({"roi"})},
       {Word({"stakeholder", "requirement"}), Pair({"acceptance"}, {"criteria"})},
       {PairPrefix({"product"}, {"decision", "direction", "behavior", "specification"})},
       {Pair({"should"}, {"we"}), Triple("do", "we", "need"), Pair({"what"}, {"if"})},
       {Word({"market", "competitor"}), Pair({"business"}, {"value"})} >>

\* one per pattern that matches anywhere, not one per occurrence
countMatches(body, patterns) ==
    Cardinality({i \in DOMAIN patterns : test(patterns[i], body)})

(***************************************************************************)
(* classify: the routing decision.  type = "undefined" is the absent hint. *)
(***************************************************************************)
TaskTypes == {"technical", "product", "ambiguous"}

classify_scoresFirst(t) ==
    LET technicalScore == countMatches(t.body, TECHNICAL_PATTERNS)
        businessScore  == countMatches(t.body, BUSINESS_PATTERNS)
    IN  IF t.type = "technical" /\ ~(businessScore > technicalScore)
        THEN [category |-> "technical_explicit", routedTo |-> "dev",
              confidence |-> "deterministic", ruleApplied |-> "Rule 1 - Operator type: technical"]
        ELSE [category |-> IF t.type = "product" THEN "business" ELSE "ambiguous",
              routedTo |-> "product", confidence |-> "deterministic",
              ruleApplied |-> "Rule 1 - Operator type: " \o t.type]

classifyByType(t) ==
    IF t.type = "technical"
    THEN [category |-> "technical_explicit", routedTo |-> "dev",
          confidence |-> "deterministic", ruleApplied |-> "Rule 1 - Operator type: technical"]
    ELSE [category |-> IF t.type = "product" THEN "business" ELSE "ambiguous",
          routedTo |-> "product", confidence |-> "deterministic",
          ruleApplied |-> "Rule 1 - Operator type: " \o t.type]

classify_symmetricTie(technicalScore, businessScore) ==
    IF technicalScore > 0 /\ technicalScore >= businessScore
    THEN [category |-> "technical_explicit", routedTo |-> "dev",
          confidence |-> "heuristic", ruleApplied |-> "Rule 2 - Technical Explicit"]
    ELSE IF businessScore > 0 /\ businessScore >= technicalScore
    THEN [category |-> "business", routedTo |-> "product",
          confidence |-> "heuristic", ruleApplied |-> "Rule 2 - Business / Strategic"]
    ELSE [category |-> "ambiguous", routedTo |-> "product",
          confidence |-> "heuristic", ruleApplied |-> "Rule 2 - Ambiguous (default to Product)"]

classifyByScores(technicalScore, businessScore) ==
    IF technicalScore > 0 /\ technicalScore > businessScore
    THEN [category |-> "technical_explicit", routedTo |-> "dev",
          confidence |-> "heuristic", ruleApplied |-> "Rule 2 - Technical Explicit"]
    ELSE IF businessScore > 0 /\ businessScore >= technicalScore
    THEN [category |-> "business", routedTo |-> "product",
          confidence |-> "heuristic", ruleApplied |-> "Rule 2 - Business / Strategic"]
    ELSE [category |-> "ambiguous", routedTo |-> "product",
          confidence |-> "heuristic", ruleApplied |-> "Rule 2 - Ambiguous (default to Product)"]

\* the ClassificationResult classify returns
classify(t) ==
    IF t.type # "undefined"
    THEN classifyByType(t)
    ELSE classifyByScores(countMatches(t.body, TECHNICAL_PATTERNS),
                          countMatches(t.body, BUSINESS_PATTERNS))

\* the audit event classify hands to logEvent before it returns: its payload is
\* { ...result, source } on the hint path, with the two scores on the pattern path
classificationEvent(t) ==
    LET decided == classify(t)
    IN  [taskId |-> t.taskId, eventType |-> "classification",
         data |-> IF t.type # "undefined"
                  THEN [category |-> decided.category, routedTo |-> decided.routedTo,
                        confidence |-> decided.confidence,
                        ruleApplied |-> decided.ruleApplied,
                        source |-> "operator_type"]
                  ELSE [category |-> decided.category, routedTo |-> decided.routedTo,
                        confidence |-> decided.confidence,
                        ruleApplied |-> decided.ruleApplied,
                        source |-> "keyword_matching",
                        technicalScore |-> countMatches(t.body, TECHNICAL_PATTERNS),
                        businessScore |-> countMatches(t.body, BUSINESS_PATTERNS)]]

(***************************************************************************)
(* Scope resolution.  allowNetwork is boolean | string[]: isArray tells    *)
(* which, value holds the boolean or the domain list.  networkPolicy is    *)
(* 'none' | string[] in the same way (kind "none" or kind "domains").      *)
(***************************************************************************)
ToolsWith(names, caps) == [n \in names |-> caps]

TOOL_CAPABILITY_MAP ==
    ToolsWith({"fetch", "curl", "wget", "http"}, {"network"})
    @@ ToolsWith({"npm", "pip"}, {"network", "filesystem"})
    @@ ToolsWith({"read", "write", "fs", "cat", "cp", "mv", "rm", "mkdir"}, {"filesystem"})
    @@ ToolsWith({"grep", "git", "npm test", "eslint", "tsc", "echo"}, {})

\* The table is an object literal, so a lookup by name also finds what the
\* object inherits from Object.prototype: for these names the lookup yields a
\* function or an object, which is not nullish and has no includes method.
OBJECT_PROTOTYPE ==
    {"constructor", "toString", "toLocaleString", "valueOf", "hasOwnProperty",
     "isPrototypeOf", "propertyIsEnumerable", "__proto__"}

\* the lookup of tool yields an inherited member rather than a capability list
Inherited(tool) == tool \notin DOMAIN TOOL_CAPABILITY_MAP /\ tool \in OBJECT_PROTOTYPE

\* how a call ends: it returns a value, or a TypeError propagates out of it
Returned(v)     == [returned |-> v]
TypeError       == [threw |-> "TypeError"]

\* TOOL_CAPABILITY_MAP[tool] ?? [], for a tool whose lookup is a list or nullish
capabilitiesOf(tool) ==
    IF tool \in DOMAIN TOOL_CAPABILITY_MAP THEN TOOL_CAPABILITY_MAP[tool] ELSE {}

\* tools.filter(...): capabilities.includes is called for a tool when the left
\* operand of either && lets it be; called on an inherited member it throws
filterTools(tools, permissions) ==
    LET networkOff == /\ ~permissions.allowNetwork.isArray
                      /\ permissions.allowNetwork.value = FALSE
        includesCalled == networkOff \/ ~permissions.allowFilesystem
        keep(tool) ==
            LET capabilities == capabilitiesOf(tool)
            IN  IF networkOff /\ "network" \in capabilities
                THEN FALSE
                ELSE IF ~permissions.allowFilesystem /\ "filesystem" \in capabilities
                THEN FALSE
                ELSE TRUE
    IN  IF includesCalled /\ \E i \in DOMAIN tools : Inherited(tools[i])
        THEN TypeError
        ELSE Returned(SelectSeq(tools, keep))

resolveScope_openNetwork(m, effectiveTools) ==
    [role |-> m.role,
     effectiveTools |-> effectiveTools,
     networkPolicy |-> IF m.permissions.allowNetwork.isArray
                       THEN [kind |-> "domains", list |-> m.permissions.allowNetwork.value]
                       ELSE IF m.permissions.allowNetwork.value
                       THEN [kind |-> "unrestricted"]
                       ELSE [kind |-> "none"],
     filesystemPolicy |-> IF m.permissions.allowFilesystem THEN "workspace" ELSE "none",
     maxExecutionTime |-> m.permissions.maxExecutionTime,
     maxCostCap |-> m.permissions.maxCostCap]

resolveScope_clampedLimits(m, effectiveTools) ==
    [role |-> m.role,
     effectiveTools |-> effectiveTools,
     networkPolicy |-> IF m.permissions.allowNetwork.isArray
                       THEN [kind |-> "domains", list |-> m.permissions.allowNetwork.value]
                       ELSE [kind |-> "none"],
     filesystemPolicy |-> IF m.permissions.allowFilesystem THEN "workspace" ELSE "none",
     maxExecutionTime |-> IF m.permissions.maxExecutionTime > 300000
                          THEN 300000 ELSE m.permissions.maxExecutionTime,
     maxCostCap |-> m.permissions.maxCostCap]

resolveScope(m, effectiveTools) ==
    [role |-> m.role,
     effectiveTools |-> effectiveTools,
     networkPolicy |-> IF m.permissions.allowNetwork.isArray
                       THEN [kind |-> "domains", list |-> m.permissions.allowNetwork.value]
                       ELSE [kind |-> "none"],
     filesystemPolicy |-> IF m.permissions.allowFilesystem THEN "workspace" ELSE "none",
     maxExecutionTime |-> m.permissions.maxExecutionTime,
     maxCostCap |-> m.permissions.maxCostCap]

Bool(b)     == [isArray |-> FALSE, value |-> b]
Domains(ds) == [isArray |-> TRUE, value |-> ds]

COORDINATOR_MANIFEST ==
    [role |-> "coordinator", image |-> "node:20-alpine",
     systemPromptPath |-> "docs/agents/coordinator.md",
     permissions |-> [allowNetwork |-> Bool(FALSE), allowFilesystem |-> FALSE,
                      maxExecutionTime |-> 30000, maxCostCap |-> 5000],
     tools |-> <<"grep">>]

PRODUCT_MANIFEST ==
    [role |-> "product", image |-> "node:20-alpine",
     systemPromptPath |-> "docs/agents/product.md",
     permissions |-> [allowNetwork |-> Bool(FALSE), allowFilesystem |-> FALSE,
                      maxExecutionTime |-> 120000, maxCostCap |-> 20000],
     tools |-> <<"grep">>]

DEV_MANIFEST ==
    [role |-> "dev", image |-> "node:20-alpine",
     systemPromptPath |-> "docs/agents/dev.md",
     permissions |-> [allowNetwork |-> Bool(FALSE), allowFilesystem |-> TRUE,
                      maxExecutionTime |-> 600000, maxCostCap |-> 100000],
     tools |-> <<"read", "write", "grep", "git", "npm test", "eslint", "tsc">>]

QA_MANIFEST ==
    [role |-> "qa", image |-> "node:20-alpine",
     systemPromptPath |-> "docs/agents/qa.md",
     permissions |-> [allowNetwork |-> Bool(FALSE), allowFilesystem |-> FALSE,
                      maxExecutionTime |-> 300000, maxCostCap |-> 30000],
     tools |-> <<"read", "grep">>]

MANIFEST_REGISTRY ==
    [r \in {"coordinator", "product", "dev", "qa"} |->
        CASE r = "coordinator" -> COORDINATOR_MANIFEST
          [] r = "product"     -> PRODUCT_MANIFEST
          [] r = "dev"         -> DEV_MANIFEST
          [] r = "qa"          -> QA_MANIFEST]

(***************************************************************************)
(* Inputs of the bounded checks.                                           *)
(***************************************************************************)
\* words separated by single blanks
RECURSIVE Sentence(_)
Sentence(words) ==
    IF Len(words) <= 1 THEN words
    ELSE <<Head(words), " ">> \o Sentence(Tail(words))

\* "Refactor the login function in src/auth/login.ts"
Scenario1 ==
    Sentence(<<"refactor", "the", "login", "function", "in">>)
        \o <<" ", "src", "/", "auth", "/", "login", ".", "ts">>
\* "We need to prioritize the onboarding experience for Q3"
Scenario2 ==
    Sentence(<<"we", "need", "to", "prioritize", "the", "onboarding", "experience", "for", "q3">>)
\* "Make it better"
Scenario3 == Sentence(<<"make", "it", "better">>)
\* "We need to prioritize the customer onboarding experience for Q3 roadmap"
ReportRun2 ==
    Sentence(<<"we", "need", "to", "prioritize", "the", "customer", "onboarding",
               "experience", "for", "q3", "roadmap">>)
TechOverBusiness == Sentence(<<"refactor", "the", "function", "for", "the", "roadmap">>)
BusinessOverTech == Sentence(<<"stakeholder", "roadmap", "needs", "a", "refactor">>)
TieTwoTwo        == Sentence(<<"refactor", "function", "roadmap", "stakeholder">>)

NamedBodies ==
    {Scenario1, Scenario2, Scenario3, ReportRun2, TechOverBusiness, BusinessOverTech, TieTwoTwo}

BodyTokens ==
    {"refactor", "function", "roadmap", "user", "needs", "prioritize", "better",
     "src", "ts", " ", "/", "."}

EnumeratedBodies ==
    {b \in UNION {[1..n -> BodyTokens] : n \in 0..MaxBodyLen} : WellFormed(b)}

ClassifyInputs ==
    [taskId : {"t1"}, type : TaskTypes \cup {"undefined"},
     body : EnumeratedBodies \cup NamedBodies]

\* "jq" is not in the table; neither is "constructor", which the table inherits
ToolNames == {"fetch", "npm", "read", "grep", "jq", "constructor"}

EnumeratedManifests ==
    [role : {"dev", "qa"}, image : {"node:20-alpine"},
     systemPromptPath : {"docs/agents/dev.md"},
     permissions : [allowNetwork : {Bool(FALSE), Bool(TRUE), Domains(<<>>),
                                    Domains(<<"api.example.com">>)},
                    allowFilesystem : BOOLEAN,
                    maxExecutionTime : {30000, 600000},
                    maxCostCap : {5000}],
     tools : UNION {[1..n -> ToolNames] : n \in 0..MaxTools}]

ScopeInputs ==
    EnumeratedManifests
    \cup {COORDINATOR_MANIFEST, PRODUCT_MANIFEST, DEV_MANIFEST, QA_MANIFEST}

(***************************************************************************)
(* SpecClassify: one call of classify on a bounded input.                  *)
(***************************************************************************)
TaskIds == {"t1", "t2"}
NoTask  == "-"

\* value of running when every task runs in a process of its own (one cli
\* invocation per task): the processes' logEvent calls interleave freely
Concurrent == "*"

\* no logEvent call has been made yet
NoCall == [n |-> 0, outcome |-> "none"]

\* run()'s bindings before any of them is assigned
NoLocals ==
    [coordinatorId |-> NoResult, classification |-> NoResult, productId |-> NoResult,
     intentSpec |-> NoResult, devId |-> NoResult, devOutput |-> NoResult,
     qaId |-> NoResult, validation |-> NoResult]

RunIdle ==
    /\ task = [t \in TaskIds |-> NoResult]
    /\ pc = [t \in TaskIds |-> "idle"]
    /\ running = NoTask
    /\ logsDir = FALSE
    /\ stream = [t \in TaskIds |-> <<>>]
    /\ stderr = 0
    /\ faults = 0
    /\ issued = [t \in TaskIds |-> <<>>]
    /\ lastLog = NoCall
    /\ locals = [t \in TaskIds |-> NoLocals]
    /\ result = [t \in TaskIds |-> NoResult]

ParseIdle    == psInput = NoResult /\ psResult = NoResult
ClassifyIdle == clsTask = NoResult /\ clsResult = NoResult /\ ParseIdle
SpawnIdle    == fsReadable = {} /\ now = 0 /\ spawned = <<>>
ScopeIdle    == manifest = NoResult /\ scope = NoResult /\ SpawnIdle

InitClassify ==
    /\ clsTask \in ClassifyInputs
    /\ clsResult = NoResult
    /\ RunIdle /\ ScopeIdle /\ ParseIdle

\* the call returns its result and has handed one event to the audit log
ClassifyCall ==
    /\ clsResult = NoResult
    /\ clsResult' = [returned |-> classify(clsTask), logged |-> classificationEvent(clsTask)]
    /\ UNCHANGED <<clsTask, runVars, scopeVars, parseVars>>

NextClassify == ClassifyCall

SpecClassify == InitClassify /\ [][NextClassify]_vars

(***************************************************************************)
(* SpecScope: spawnAgent's steps 2 and 3 on a bounded manifest.            *)
(***************************************************************************)
InitScope ==
    /\ manifest \in ScopeInputs
    /\ scope = NoResult
    /\ RunIdle /\ ClassifyIdle /\ SpawnIdle

\* resolveScope is reached when filterTools has returned
ResolveCall ==
    /\ scope = NoResult
    /\ LET effectiveTools == filterTools(manifest.tools, manifest.permissions)
       IN  scope' = IF effectiveTools = TypeError
                    THEN TypeError
                    ELSE resolveScope(manifest, effectiveTools.returned)
    /\ UNCHANGED <<manifest, runVars, clsVars, spawnVars>>

NextScope == ResolveCall

SpecScope == InitScope /\ [][NextScope]_vars

(***************************************************************************)
(* The audit logger (src/core/logger.ts).  A log file is the sequence of   *)
(* its lines; a line is the record that JSON.stringify serialised.  The    *)
(* wall clock is not modelled: a record is its task id, event type, agent  *)
(* id (when the event has one) and payload.                                *)
(***************************************************************************)
\* path.resolve(projectRoot, 'logs', `${taskId}.jsonl`): one file per task id
getLogPath_shared(taskId) == "t1"

getLogPath(taskId) == taskId

\* the record logEvent serialises: agentId is copied only when the event has one
record(event) ==
    IF "agentId" \in DOMAIN event
    THEN [taskId |-> event.taskId, eventType |-> event.eventType,
          agentId |-> event.agentId, data |-> event.data]
    ELSE [taskId |-> event.taskId, eventType |-> event.eventType, data |-> event.data]

writeFileSync(file, line) == <<line>>

\* fs.appendFileSync(filePath, line): the line goes after what the file holds
appendFileSync(file, line) == Append(file, line)

\* How a logEvent call can end in the current state:
\*   "appended"  the line was written;
\*   "reported"  appendFileSync threw, the catch wrote to stderr;
\*   "threw"     ensureLogsDir's mkdirSync threw: it runs before the try block.
logEventOutcomes ==
    {"appended"}
    \cup (IF faults < MaxFaults THEN {"reported"} ELSE {})
    \cup (IF faults < MaxFaults /\ ~logsDir THEN {"threw"} ELSE {})

\* logEvent(event, projectRoot), ending in outcome
logEvent(event, outcome) ==
    /\ outcome \in logEventOutcomes
    /\ logsDir' = (IF outcome = "threw" THEN logsDir ELSE TRUE)
    /\ stream' = IF outcome = "appended"
                 THEN [stream EXCEPT ![getLogPath(event.taskId)] =
                                         appendFileSync(@, record(event))]
                 ELSE stream
    /\ stderr' = IF outcome = "reported" THEN stderr + 1 ELSE stderr
    /\ faults' = IF outcome = "appended" THEN faults ELSE faults + 1
    /\ issued' = [issued EXCEPT ![event.taskId] = Append(@, record(event))]
    /\ lastLog' = [n |-> lastLog.n + 1, event |-> event, outcome |-> outcome]

(***************************************************************************)
(* Identifiers.  `${role}-${Date.now()}-${suffix}`: the role, the clock     *)
(* value and the random suffix.  The runs of Spec keep the clock still and *)
(* draw one suffix: the ids of one run differ by their roles.              *)
(***************************************************************************)
Suffixes == {"a3f2"}

generateAgentId(role, timestamp, suffix) ==
    [role |-> role, timestamp |-> timestamp, suffix |-> suffix]
generateSpecId(suffix)        == [spec |-> suffix]

(***************************************************************************)
(* The events run() and the stages hand to logEvent.                       *)
(***************************************************************************)
executionStart(t) ==
    [taskId |-> t.taskId, eventType |-> "execution_start", data |-> [body |-> t.body]]

logSpawn(taskId, agentId, role) ==
    [taskId |-> taskId, eventType |-> "agent_spawned", agentId |-> agentId,
     data |-> [role |-> role]]

logDestroy_asSpawn(taskId, agentId, role) ==
    [taskId |-> taskId, eventType |-> "agent_spawned", agentId |-> agentId,
     data |-> [role |-> role]]

logDestroy(taskId, agentId, role) ==
    [taskId |-> taskId, eventType |-> "agent_destroyed", agentId |-> agentId,
     data |-> [role |-> role]]

productSkipped(t, classification, intentSpec) ==
    [taskId |-> t.taskId, eventType |-> "product_skipped",
     data |-> [reason |-> "Classification routed directly to dev. Technical input does not require disambiguation.",
               category |-> classification.category,
               ruleApplied |-> classification.ruleApplied,
               inlineSpecId |-> intentSpec.specId]]

executionEnd(t, validation) ==
    [taskId |-> t.taskId, eventType |-> "execution_end",
     data |-> [verdict |-> validation.verdict, summary |-> validation.summary]]

agentExecutionStart(taskId, agentId, data) ==
    [taskId |-> taskId, eventType |-> "agent_execution_start", agentId |-> agentId,
     data |-> data]

agentExecutionEnd(taskId, agentId, data) ==
    [taskId |-> taskId, eventType |-> "agent_execution_end", agentId |-> agentId,
     data |-> data]

(***************************************************************************)
(* The stages' outputs.                                                    *)
(***************************************************************************)
buildInlineSpec_restated(t, specId) ==
    [specId |-> specId,
     taskId |-> t.taskId,
     objective |-> t.body,
     requirements |-> << [id |-> "REQ-001", description |-> Tail(t.body),
                          verification |-> "Implementation satisfies the task description as stated."] >>,
     constraints |-> <<>>,
     outOfScope |-> << "Anything not explicitly stated in the task description." >>,
     assumptions |-> <<>>,
     contextRefs |-> <<>>]

\* orchestrator.ts buildInlineSpec
buildInlineSpec(t, specId) ==
    [specId |-> specId,
     taskId |-> t.taskId,
     objective |-> t.body,
     requirements |-> << [id |-> "REQ-001", description |-> t.body,
                          verification |-> "Implementation satisfies the task description as stated."] >>,
     constraints |-> <<>>,
     outOfScope |-> << "Anything not explicitly stated in the task description." >>,
     assumptions |-> << [id |-> "ASM-001",
                         statement |-> "The task description is a complete, unambiguous technical instruction.",
                         source |-> "operator_input"] >>,
     contextRefs |-> <<>>]

\* mock-product.ts execute: the hardcoded Intent Spec
productSpec(t, specId) ==
    [specId |-> specId,
     taskId |-> t.taskId,
     objective |-> "Create a TypeScript function that returns a greeting string.",
     requirements |->
        << [id |-> "REQ-001",
            description |-> "A function named \"greet\" must exist and accept a single string parameter \"name\".",
            verification |-> "File contains an exported function with signature: greet(name: string): string."],
           [id |-> "REQ-002",
            description |-> "The function must return a string in the format \"Hello, {name}!\".",
            verification |-> "Calling greet(\"World\") returns exactly \"Hello, World!\"."] >>,
     constraints |->
        << [id |-> "CON-001",
            description |-> "The function must not perform I/O, network calls, or access the filesystem."] >>,
     outOfScope |-> << "Internationalization or locale-specific greetings.",
                       "Input validation beyond what TypeScript types enforce.",
                       "Unit test files - testing is a separate task." >>,
     assumptions |-> << [id |-> "ASM-001",
                         statement |-> "The target runtime supports ES2022 or later.",
                         source |-> "operator_input"] >>,
     contextRefs |-> <<>>]

\* mock-dev.ts execute: the hardcoded completed output
devOutputOf(spec) ==
    [taskId |-> spec.taskId,
     specId |-> spec.specId,
     status |-> "completed",
     artifacts |-> << [path |-> "src/greet.ts",
                       content |-> "export function greet(name: string): string {...}",
                       type |-> "source"] >>,
     toolInvocations |->
        << [tool |-> "write", args |-> [path |-> "src/greet.ts"],
            result |-> "File written successfully."],
           [tool |-> "tsc", args |-> [flags |-> <<"--noEmit", "src/greet.ts">>],
            result |-> "No errors found."] >>]

validationOf_failOverlooked(spec, devOutput) ==
    [taskId |-> spec.taskId,
     specId |-> spec.specId,
     verdict |-> "pass",
     requirementResults |->
         [i \in DOMAIN spec.requirements |->
             [requirementId |-> spec.requirements[i].id,
              status |-> IF i = 1 THEN "fail" ELSE "pass",
              evidence |-> "Not found in artifact.",
              verificationMethod |-> spec.requirements[i].verification]],
     constraintResults |-> <<>>,
     scopeViolations |-> <<>>,
     summary |-> [totalRequirements |-> Len(spec.requirements),
                  passedRequirements |-> Len(spec.requirements) - 1,
                  failedRequirements |-> 1,
                  totalConstraints |-> 0,
                  violatedConstraints |-> 0,
                  scopeViolationCount |-> 0]]

\* mock-qa.ts execute: the report
validationOf(spec, devOutput) ==
    LET requirementResults ==
            [i \in DOMAIN spec.requirements |->
                [requirementId |-> spec.requirements[i].id,
                 status |-> "pass",
                 evidence |-> "Verified in artifact. Requirement \"" \o spec.requirements[i].id
                                  \o "\" satisfied.",
                 verificationMethod |-> spec.requirements[i].verification]]
        constraintResults ==
            [i \in DOMAIN spec.constraints |->
                [constraintId |-> spec.constraints[i].id,
                 status |-> "pass",
                 evidence |-> "No violation detected. Constraint \"" \o spec.constraints[i].id
                                  \o "\" respected."]]
    IN  [taskId |-> spec.taskId,
         specId |-> spec.specId,
         verdict |-> "pass",
         requirementResults |-> requirementResults,
         constraintResults |-> constraintResults,
         scopeViolations |-> <<>>,
         summary |-> [totalRequirements |-> Len(requirementResults),
                      passedRequirements |-> Len(requirementResults),
                      failedRequirements |-> 0,
                      totalConstraints |-> Len(constraintResults),
                      violatedConstraints |-> 0,
                      scopeViolationCount |-> 0]]

(***************************************************************************)
(* Spec: the orchestrator (src/core/orchestrator.ts run).  run() is        *)
(* synchronous: within one process one task runs at a time, from its first *)
(* logEvent call to its return or to the exception that leaves it.  Every  *)
(* step is one logEvent call with the statements around it.                *)
(* SpecInterleaved has the same steps with one process per task.           *)
(***************************************************************************)
RunInputs ==
    { [type |-> "undefined", body |-> Scenario1],
      [type |-> "undefined", body |-> Scenario3],
      [type |-> "undefined", body |-> ReportRun2],
      [type |-> "technical", body |-> ReportRun2],
      [type |-> "product",   body |-> Scenario1],
      [type |-> "ambiguous", body |-> Scenario1] }

Init ==
    /\ \E f \in [TaskIds -> RunInputs] :
           task = [t \in TaskIds |-> [taskId |-> t, type |-> f[t].type, body |-> f[t].body]]
    /\ pc = [t \in TaskIds |-> "idle"]
    /\ running = NoTask
    /\ logsDir \in BOOLEAN
    /\ stream = [t \in TaskIds |-> <<>>]
    /\ stderr = 0
    /\ faults = 0
    /\ issued = [t \in TaskIds |-> <<>>]
    /\ lastLog = NoCall
    /\ locals = [t \in TaskIds |-> NoLocals]
    /\ result = [t \in TaskIds |-> NoResult]
    /\ ClassifyIdle /\ ScopeIdle

\* the statements of run() up to the routing decision, in program order
stepsBeforeRouting ==
    <<"execution_start", "spawn_coordinator", "classify", "destroy_coordinator">>

stepsAfterRouting_both(routedTo) ==
    <<"product_skipped", "spawn_product", "product_start", "product_end", "destroy_product",
      "spawn_dev", "dev_start", "dev_end", "destroy_dev",
      "spawn_qa", "qa_start", "qa_end", "destroy_qa", "execution_end", "done">>

stepsAfterRouting_qaFirst(routedTo) ==
    (IF routedTo = "product"
     THEN <<"spawn_product", "product_start", "product_end", "destroy_product">>
     ELSE <<"product_skipped">>)
    \o <<"spawn_dev", "dev_start", "dev_end", "spawn_qa", "destroy_dev",
         "qa_start", "qa_end", "destroy_qa", "execution_end", "done">>

\* the statements of run() after it, for the route classification chose
stepsAfterRouting(routedTo) ==
    (IF routedTo = "product"
     THEN <<"spawn_product", "product_start", "product_end", "destroy_product">>
     ELSE <<"product_skipped">>)
    \o <<"spawn_dev", "dev_start", "dev_end", "destroy_dev",
         "spawn_qa", "qa_start", "qa_end", "destroy_qa", "execution_end", "done">>

IndexOf(seq, x) == CHOOSE i \in DOMAIN seq : seq[i] = x

\* the statement that follows label
after(label, classification) ==
    IF label \in Range(stepsBeforeRouting) /\ label # "destroy_coordinator"
    THEN stepsBeforeRouting[IndexOf(stepsBeforeRouting, label) + 1]
    ELSE LET rest == stepsAfterRouting(classification.routedTo)
         IN  IF label = "destroy_coordinator" THEN rest[1]
             ELSE rest[IndexOf(rest, label) + 1]

\* t's process is the one executing
Scheduled(t) == running \in {t, Concurrent}

\* running once t's run() has been entered, and once a run() has been left
Entered(t) == IF running = Concurrent THEN Concurrent ELSE t
Left       == IF running = Concurrent THEN Concurrent ELSE NoTask

afterThrow_retry(label) == label

\* where run() is after an exception reached it at label: it has no try/catch,
\* the exception leaves it
afterThrow(label) == "thrown"

\* one logEvent call inside run(): it returns and run() goes on with newLocals,
\* or it throws and the exception leaves run()
Step(t, label, event, newLocals) ==
    /\ Scheduled(t) /\ pc[t] = label
    /\ \E outcome \in logEventOutcomes :
           /\ logEvent(event, outcome)
           /\ IF outcome = "threw"
              THEN /\ pc' = [pc EXCEPT ![t] = afterThrow(label)]
                   /\ running' = (IF afterThrow(label) = "thrown" THEN Left ELSE running)
                   /\ locals' = locals
              ELSE /\ pc' = [pc EXCEPT ![t] = after(label, newLocals.classification)]
                   /\ running' = running
                   /\ locals' = [locals EXCEPT ![t] = newLocals]
    /\ UNCHANGED <<task, result, clsVars, scopeVars>>

\* run() is entered: execution_start
RunStart(t) ==
    /\ running \in {NoTask, Concurrent} /\ pc[t] = "idle"
    /\ \E outcome \in logEventOutcomes :
           /\ logEvent(executionStart(task[t]), outcome)
           /\ IF outcome = "threw"
              THEN pc' = [pc EXCEPT ![t] = "thrown"] /\ running' = Left
              ELSE /\ pc' = [pc EXCEPT ![t] = after("execution_start", NoResult)]
                   /\ running' = Entered(t)
    /\ UNCHANGED <<task, locals, result, clsVars, scopeVars>>

SpawnCoordinator(t) ==
    \E s \in Suffixes :
        LET coordinatorId == generateAgentId("coordinator", now, s)
        IN  Step(t, "spawn_coordinator", logSpawn(t, coordinatorId, "coordinator"),
                 [locals[t] EXCEPT !.coordinatorId = coordinatorId])

\* classify(task, projectRoot): decides, logs the classification event, returns
Classify(t) ==
    Step(t, "classify", classificationEvent(task[t]),
         [locals[t] EXCEPT !.classification = classify(task[t])])

DestroyCoordinator(t) ==
    Step(t, "destroy_coordinator", logDestroy(t, locals[t].coordinatorId, "coordinator"),
         locals[t])

SpawnProduct(t) ==
    \E s \in Suffixes :
        LET productId == generateAgentId("product", now, s)
        IN  Step(t, "spawn_product", logSpawn(t, productId, "product"),
                 [locals[t] EXCEPT !.productId = productId])

\* mock-product.ts execute, first half: agent_execution_start
ProductStart(t) ==
    Step(t, "product_start",
         agentExecutionStart(t, locals[t].productId, [role |-> "product"]), locals[t])

\* mock-product.ts execute, second half: build the spec, agent_execution_end, return
ProductEnd(t) ==
    \E s \in Suffixes :
        LET spec == productSpec(task[t], generateSpecId(s))
        IN  Step(t, "product_end",
                 agentExecutionEnd(t, locals[t].productId,
                                   [role |-> "product", specId |-> spec.specId]),
                 [locals[t] EXCEPT !.intentSpec = spec])

DestroyProduct(t) ==
    Step(t, "destroy_product", logDestroy(t, locals[t].productId, "product"), locals[t])

\* the else branch: inline spec, product_skipped
SkipProduct(t) ==
    \E s \in Suffixes :
        LET intentSpec == buildInlineSpec(task[t], generateSpecId(s))
        IN  Step(t, "product_skipped",
                 productSkipped(task[t], locals[t].classification, intentSpec),
                 [locals[t] EXCEPT !.intentSpec = intentSpec])

SpawnDev(t) ==
    \E s \in Suffixes :
        LET devId == generateAgentId("dev", now, s)
        IN  Step(t, "spawn_dev", logSpawn(t, devId, "dev"),
                 [locals[t] EXCEPT !.devId = devId])

\* mock-dev.ts execute, first half
DevStart(t) ==
    Step(t, "dev_start",
         agentExecutionStart(locals[t].intentSpec.taskId, locals[t].devId,
                             [role |-> "dev", specId |-> locals[t].intentSpec.specId]),
         locals[t])

\* mock-dev.ts execute, second half
DevEnd(t) ==
    LET output == devOutputOf(locals[t].intentSpec)
    IN  Step(t, "dev_end",
             agentExecutionEnd(locals[t].intentSpec.taskId, locals[t].devId,
                               [role |-> "dev", specId |-> locals[t].intentSpec.specId,
                                status |-> output.status,
                                artifactCount |-> Len(output.artifacts)]),
             [locals[t] EXCEPT !.devOutput = output])

DestroyDev(t) ==
    Step(t, "destroy_dev", logDestroy(t, locals[t].devId, "dev"), locals[t])

SpawnQA(t) ==
    \E s \in Suffixes :
        LET qaId == generateAgentId("qa", now, s)
        IN  Step(t, "spawn_qa", logSpawn(t, qaId, "qa"),
                 [locals[t] EXCEPT !.qaId = qaId])

\* mock-qa.ts execute, first half
QAStart(t) ==
    Step(t, "qa_start",
         agentExecutionStart(locals[t].intentSpec.taskId, locals[t].qaId,
                             [role |-> "qa", specId |-> locals[t].intentSpec.specId]),
         locals[t])

\* mock-qa.ts execute, second half
QAEnd(t) ==
    LET report == validationOf(locals[t].intentSpec, locals[t].devOutput)
    IN  Step(t, "qa_end",
             agentExecutionEnd(locals[t].intentSpec.taskId, locals[t].qaId,
                               [role |-> "qa", specId |-> locals[t].intentSpec.specId,
                                verdict |-> report.verdict, summary |-> report.summary]),
             [locals[t] EXCEPT !.validation = report])

DestroyQA(t) ==
    Step(t, "destroy_qa", logDestroy(t, locals[t].qaId, "qa"), locals[t])

\* execution_end, then run() returns the ExecutionResult
RunEnd(t) ==
    /\ Scheduled(t) /\ pc[t] = "execution_end"
    /\ \E outcome \in logEventOutcomes :
           /\ logEvent(executionEnd(task[t], locals[t].validation), outcome)
           /\ IF outcome = "threw"
              THEN pc' = [pc EXCEPT ![t] = "thrown"] /\ result' = result
              ELSE /\ pc' = [pc EXCEPT ![t] = after("execution_end", locals[t].classification)]
                   /\ result' = [result EXCEPT ![t] =
                                     [taskId |-> task[t].taskId,
                                      classification |-> locals[t].classification,
                                      intentSpec |-> locals[t].intentSpec,
                                      devOutput |-> locals[t].devOutput,
                                      validation |-> locals[t].validation]]
    /\ running' = Left
    /\ UNCHANGED <<task, locals, clsVars, scopeVars>>

\* the environment: the logs directory goes away under a run in progress
\* (logEvent looks for it again at every call)
LogsDirRemoved ==
    /\ logsDir /\ faults < MaxFaults
    /\ \E t \in TaskIds : pc[t] \notin {"idle", "done", "thrown"}
    /\ logsDir' = FALSE
    /\ UNCHANGED <<task, pc, running, stream, stderr, faults, issued, lastLog, locals, result,
                   clsVars, scopeVars>>

Next ==
    \/ LogsDirRemoved
    \/ \E t \in TaskIds :
        \/ RunStart(t)
        \/ SpawnCoordinator(t) \/ Classify(t) \/ DestroyCoordinator(t)
        \/ SpawnProduct(t) \/ ProductStart(t) \/ ProductEnd(t) \/ DestroyProduct(t)
        \/ SkipProduct(t)
        \/ SpawnDev(t) \/ DevStart(t) \/ DevEnd(t) \/ DestroyDev(t)
        \/ SpawnQA(t) \/ QAStart(t) \/ QAEnd(t) \/ DestroyQA(t)
        \/ RunEnd(t)

Spec == Init /\ [][Next]_vars

\* the statements of t's run(): synchronous code, the next one always executes
RunSteps(t) ==
    \/ RunStart(t)
    \/ SpawnCoordinator(t) \/ Classify(t) \/ DestroyCoordinator(t)
    \/ SpawnProduct(t) \/ ProductStart(t) \/ ProductEnd(t) \/ DestroyProduct(t)
    \/ SkipProduct(t)
    \/ SpawnDev(t) \/ DevStart(t) \/ DevEnd(t) \/ DestroyDev(t)
    \/ SpawnQA(t) \/ QAStart(t) \/ QAEnd(t) \/ DestroyQA(t)
    \/ RunEnd(t)

\* one process, the tasks of the end-to-end scenarios 1 and 2: one per route
InitLive ==
    /\ \E f \in [TaskIds -> {Scenario1, Scenario2}] :
           task = [t \in TaskIds |-> [taskId |-> t, type |-> "undefined", body |-> f[t]]]
    /\ pc = [t \in TaskIds |-> "idle"]
    /\ running = NoTask
    /\ logsDir \in BOOLEAN
    /\ stream = [t \in TaskIds |-> <<>>]
    /\ stderr = 0
    /\ faults = 0
    /\ issued = [t \in TaskIds |-> <<>>]
    /\ lastLog = NoCall
    /\ locals = [t \in TaskIds |-> NoLocals]
    /\ result = [t \in TaskIds |-> NoResult]
    /\ ClassifyIdle /\ ScopeIdle

\* Spec with every called run() executing to its return or to the exception
\* that leaves it
SpecLive == InitLive /\ [][Next]_vars /\ \A t \in TaskIds : WF_vars(RunSteps(t))

\* two cli invocations at once, one task each, stepping in any order
InterleavedInputs ==
    { [type |-> "undefined", body |-> Scenario1],
      [type |-> "undefined", body |-> Scenario3] }

InitInterleaved ==
    /\ \E f \in [TaskIds -> InterleavedInputs] :
           task = [t \in TaskIds |-> [taskId |-> t, type |-> f[t].type, body |-> f[t].body]]
    /\ pc = [t \in TaskIds |-> "idle"]
    /\ running = Concurrent
    /\ logsDir \in BOOLEAN
    /\ stream = [t \in TaskIds |-> <<>>]
    /\ stderr = 0
    /\ faults = 0
    /\ issued = [t \in TaskIds |-> <<>>]
    /\ lastLog = NoCall
    /\ locals = [t \in TaskIds |-> NoLocals]
    /\ result = [t \in TaskIds |-> NoResult]
    /\ ClassifyIdle /\ ScopeIdle

SpecInterleaved == InitInterleaved /\ [][Next]_vars

(***************************************************************************)
(* SpecSpawn: spawnAgent (src/core/runtime.ts).  A text is the sequence of  *)
(* its lines, the pieces its line feeds separate: "a\nb\n" is              *)
(* <<"a", "b", "">>.                                                       *)
(***************************************************************************)
Null == [null |-> TRUE]

\* how a contract file can end: one line feed (docs/agents/product.md), two
\* (docs/agents/qa.md), or a line of blanks before the last line feed
Endings == { <<"">>, <<"", "">>, <<"  ", "">> }

\* the text of a contract file as it is on disk
contractText(systemPromptPath) ==
    << "# Agent contract", "Source: " \o systemPromptPath >> \o fsReadable[systemPromptPath]

\* fs.readFileSync in try/catch: the content, or null when the read throws
loadSystemPromptContent(systemPromptPath) ==
    IF systemPromptPath \in DOMAIN fsReadable
    THEN Returned(contractText(systemPromptPath))
    ELSE Null

\* trimEnd of a text without line feeds
RECURSIVE trimEndOfLine(_)
trimEndOfLine(line) ==
    IF Len(line) = 0 THEN line
    ELSE IF SubSeq(line, Len(line), Len(line)) = " "
         THEN trimEndOfLine(SubSeq(line, 1, Len(line) - 1))
         ELSE line

\* String.prototype.trimEnd: the blanks and line feeds at the end go
RECURSIVE trimEnd(_)
trimEnd(text) ==
    LET last == trimEndOfLine(text[Len(text)])
    IN  IF last = "" /\ Len(text) > 1
        THEN trimEnd(SubSeq(text, 1, Len(text) - 1))
        ELSE SubSeq(text, 1, Len(text) - 1) \o <<last>>

\* Array.prototype.join
RECURSIVE join(_, _)
join(items, separator) ==
    IF items = <<>> THEN ""
    ELSE IF Len(items) = 1 THEN items[1]
    ELSE items[1] \o separator \o join(Tail(items), separator)

buildPermissionsBlock(sc) ==
    LET networkLine ==
            IF sc.networkPolicy.kind = "none"
            THEN "DENIED. No outbound network access is permitted."
            ELSE "RESTRICTED. Permitted domains: " \o join(sc.networkPolicy.list, ", ") \o "."
        filesystemLine ==
            IF sc.filesystemPolicy = "workspace"
            THEN "RESTRICTED. Read/write is permitted within ./workspace only. All other paths are denied."
            ELSE "DENIED. No filesystem access is permitted."
        toolsList ==
            IF Len(sc.effectiveTools) > 0
            THEN [i \in DOMAIN sc.effectiveTools |-> "  - " \o sc.effectiveTools[i]]
            ELSE << "  (none)" >>
    IN  << "---", "", "## Runtime Permissions", "",
           "The following permissions are enforced structurally by the runtime.",
           "They are not guidelines. Attempting to exceed them will be denied and logged.",
           "",
           "**Network access:** " \o networkLine, "",
           "**Filesystem access:** " \o filesystemLine, "",
           "**Permitted tools:**" >>
        \o toolsList
        \o << "",
              "**Execution time limit:** " \o ToString(sc.maxExecutionTime) \o "ms", "",
              "**Cost cap:** " \o ToString(sc.maxCostCap) \o " tokens", "",
              "---", "", "## Enforcement Notice", "",
              "You are an untrusted, disposable runtime. Your capabilities are enforced externally.",
              "You have no memory of prior executions. You have no access to resources not listed above.",
              "Your output will be validated against the task specification before acceptance.",
              "If your task cannot be completed within these constraints, return a structured failure.",
              "Do not attempt workarounds. Do not escalate your own permissions. Fail explicitly." >>

assembleSystemPrompt_blockFirst(roleContent, sc) ==
    buildPermissionsBlock(sc) \o <<"">> \o trimEnd(roleContent) \o <<"">>

\* `${roleContent.trimEnd()}\n\n${permissionsBlock}\n`
assembleSystemPrompt(roleContent, sc) ==
    trimEnd(roleContent) \o <<"">> \o buildPermissionsBlock(sc) \o <<"">>

\* path.resolve(projectRoot, 'workspace', agentId)
workspacePathOf(agentId) == <<"workspace", agentId>>

spawnAgent_stamped(m, t, timestamp, suffix) ==
    LET roleContent == loadSystemPromptContent(m.systemPromptPath)
    IN  IF roleContent = Null
        THEN Returned([success |-> FALSE,
                       error |-> [kind |-> "system_prompt_missing",
                                  detail |-> "Cannot read system prompt at path: "
                                                 \o m.systemPromptPath,
                                  manifestRole |-> m.role]])
        ELSE LET effectiveTools == filterTools(m.tools, m.permissions)
             IN  IF effectiveTools = TypeError
                 THEN TypeError
                 ELSE LET sc == resolveScope(m, effectiveTools.returned)
                          agentId == generateAgentId(m.role, timestamp, suffix)
                      IN  Returned([success |-> TRUE,
                                    agent |-> [agentId |-> agentId,
                                               manifest |-> m,
                                               task |-> t,
                                               systemPrompt |->
                                                   assembleSystemPrompt(roleContent.returned, sc)
                                                       \o <<"Spawned at " \o ToString(timestamp)>>,
                                               scope |-> sc,
                                               workspacePath |-> workspacePathOf(agentId),
                                               createdAt |-> timestamp,
                                               status |-> "ready"]])

\* spawnAgent(manifest, task, projectRoot) at clock value timestamp, the random
\* bytes giving suffix: what it returns, or the exception that leaves it
spawnAgent(m, t, timestamp, suffix) ==
    LET roleContent == loadSystemPromptContent(m.systemPromptPath)
    IN  IF roleContent = Null
        THEN Returned([success |-> FALSE,
                       error |-> [kind |-> "system_prompt_missing",
                                  detail |-> "Cannot read system prompt at path: "
                                                 \o m.systemPromptPath,
                                  manifestRole |-> m.role]])
        ELSE LET effectiveTools == filterTools(m.tools, m.permissions)
             IN  IF effectiveTools = TypeError
                 THEN TypeError
                 ELSE LET sc == resolveScope(m, effectiveTools.returned)
                          agentId == generateAgentId(m.role, timestamp, suffix)
                      IN  Returned([success |-> TRUE,
                                    agent |-> [agentId |-> agentId,
                                               manifest |-> m,
                                               task |-> t,
                                               systemPrompt |->
                                                   assembleSystemPrompt(roleContent.returned, sc),
                                               scope |-> sc,
                                               workspacePath |-> workspacePathOf(agentId),
                                               createdAt |-> timestamp,
                                               status |-> "ready"]])

(***************************************************************************)
(* The prompt loader (src/core/llm/prompt-loader.ts): the second builder   *)
(* of instruction texts, from the manifest alone.                          *)
(***************************************************************************)
getEffectiveTools_networkKept(m) ==
    Returned(SelectSeq(m.tools,
                       LAMBDA tool : m.permissions.allowFilesystem
                                         \/ "filesystem" \notin capabilitiesOf(tool)))

\* manifest.tools.filter(...), with the lookup and the includes calls of filterTools
getEffectiveTools(m) ==
    LET networkFalse == /\ ~m.permissions.allowNetwork.isArray
                        /\ m.permissions.allowNetwork.value = FALSE
        keep(tool) ==
            ~ \/ networkFalse /\ "network" \in capabilitiesOf(tool)
              \/ ~m.permissions.allowFilesystem /\ "filesystem" \in capabilitiesOf(tool)
    IN  IF (networkFalse \/ ~m.permissions.allowFilesystem)
               /\ \E i \in DOMAIN m.tools : Inherited(m.tools[i])
        THEN TypeError
        ELSE Returned(SelectSeq(m.tools, keep))

buildConstraintsBlock(m, effectiveTools) ==
    LET permissions == m.permissions
        networkLine ==
            IF permissions.allowNetwork.isArray
            THEN "RESTRICTED. Permitted domains: "
                     \o join(permissions.allowNetwork.value, ", ") \o "."
            ELSE "DENIED. No outbound network access is permitted."
        filesystemLine ==
            IF permissions.allowFilesystem
            THEN "RESTRICTED. Read/write permitted within ./workspace only."
            ELSE "DENIED. No filesystem access is permitted."
        toolsList ==
            IF Len(effectiveTools) > 0
            THEN [i \in DOMAIN effectiveTools |-> "  - " \o effectiveTools[i]]
            ELSE << "  (none)" >>
    IN  << "---", "", "## RUNTIME CONSTRAINTS", "",
           "These constraints are enforced structurally by the runtime.",
           "They are not guidelines. Violations will be denied and logged.",
           "",
           "**Network access:** " \o networkLine, "",
           "**Filesystem access:** " \o filesystemLine, "",
           "**Permitted tools:**" >>
        \o toolsList
        \o << "",
              "**Execution time limit:** " \o ToString(permissions.maxExecutionTime) \o "ms",
              "",
              "**Cost cap:** " \o ToString(permissions.maxCostCap) \o " tokens" >>

\* loadSystemPrompt once the manifest is looked up: the text, or the exception
\* that leaves it (Error when the contract file cannot be read)
loadSystemPromptOf(m) ==
    IF m.systemPromptPath \notin DOMAIN fsReadable
    THEN [threw |-> "Error"]
    ELSE LET content == contractText(m.systemPromptPath)
             effectiveTools == getEffectiveTools(m)
         IN  IF effectiveTools = TypeError
             THEN TypeError
             ELSE Returned(trimEnd(content) \o <<"">>
                               \o buildConstraintsBlock(m, effectiveTools.returned)
                               \o <<"">>)

\* loadSystemPrompt(role, projectRoot)
loadSystemPrompt(role) == loadSystemPromptOf(MANIFEST_REGISTRY[role])

SpawnSuffixes == {"a3f2", "0b1c"}

\* the registry's manifests and manifests of the same type with other tools
SpawnInputs ==
    { COORDINATOR_MANIFEST, DEV_MANIFEST,
      [QA_MANIFEST EXCEPT !.tools = <<"read", "jq", "fetch">>],
      [DEV_MANIFEST EXCEPT !.tools = <<"read", "constructor">>],
      [DEV_MANIFEST EXCEPT !.tools = <<"fetch", "constructor">>,
                           !.permissions.allowNetwork = Domains(<<"api.example.com">>)] }

SpawnTasks == { [taskId |-> "t1", type |-> "undefined", body |-> Scenario1] }

ContractPaths == {m.systemPromptPath : m \in SpawnInputs}

InitSpawn ==
    /\ \E S \in SUBSET ContractPaths, ending \in Endings :
           fsReadable = [path \in S |-> ending]
    /\ now = 0
    /\ spawned = <<>>
    /\ manifest = NoResult /\ scope = NoResult
    /\ RunIdle /\ ClassifyIdle

SpawnCall ==
    /\ Len(spawned) < MaxSpawns
    /\ \E m \in SpawnInputs, t \in SpawnTasks, suffix \in SpawnSuffixes :
           spawned' = Append(spawned,
                             [manifest |-> m, task |-> t,
                              readable |-> m.systemPromptPath \in DOMAIN fsReadable,
                              outcome |-> spawnAgent(m, t, now, suffix),
                              loaded |-> IF m = MANIFEST_REGISTRY[m.role]
                                         THEN loadSystemPrompt(m.role)
                                         ELSE loadSystemPromptOf(m)])
    /\ UNCHANGED <<fsReadable, now, manifest, scope, runVars, clsVars>>

\* a millisecond passes
ClockTick ==
    /\ now < MaxClock
    /\ now' = now + 1
    /\ UNCHANGED <<fsReadable, spawned, manifest, scope, runVars, clsVars>>

NextSpawn == SpawnCall \/ ClockTick

SpecSpawn == InitSpawn /\ [][NextSpawn]_vars

(***************************************************************************)
(* The response parser (src/core/llm/parser.ts).  A text is the sequence   *)
(* of its characters, each a one-character string; a run of three          *)
(* backticks is the single lexeme Fence (the texts of the model hold no    *)
(* other backtick).                                                        *)
(*                                                                         *)
(* A JSON value is a record tagged by its kind.  The value of the JSON     *)
(* text null is JavaScript's null, which is also what a strategy returns   *)
(* when it fails: both are Null.  An object is the sequence of its         *)
(* <<key, value>> members in insertion order.                              *)
(***************************************************************************)
Fence == "<fence>"

Chars(str) == [i \in 1..Len(str) |-> SubSeq(str, i, i)]

JBool(b)       == [bool |-> b]
JNum(n)        == [num |-> n]
JStr(chars)    == [str |-> chars]
JArr(items)    == [arr |-> items]
JObj(members)  == [obj |-> members]

Whitespace == {" ", "\n"}
Digits     == {"0", "1", "2", "3", "4", "5", "6", "7", "8", "9"}

DigitValue(c) ==
    CASE c = "0" -> 0 [] c = "1" -> 1 [] c = "2" -> 2 [] c = "3" -> 3 [] c = "4" -> 4
      [] c = "5" -> 5 [] c = "6" -> 6 [] c = "7" -> 7 [] c = "8" -> 8 [] c = "9" -> 9

\* the character at i, "" past the end
At(text, i) == IF i \in DOMAIN text THEN text[i] ELSE ""

\* text.slice(from, to + 1) in 1-based positions
Slice(text, from, to) == SubSeq(text, from, to)

RECURSIVE skipWs(_, _)
skipWs(text, i) == IF At(text, i) \in Whitespace THEN skipWs(text, i + 1) ELSE i

\* String.prototype.trim
RECURSIVE trimStart(_)
trimStart(text) ==
    IF text # <<>> /\ Head(text) \in Whitespace THEN trimStart(Tail(text)) ELSE text

RECURSIVE trimTail(_)
trimTail(text) ==
    IF text # <<>> /\ text[Len(text)] \in Whitespace
    THEN trimTail(SubSeq(text, 1, Len(text) - 1))
    ELSE text

trim(text) == trimTail(trimStart(text))

Fail == [ok |-> FALSE]
Ok(value, next) == [ok |-> TRUE, value |-> value, next |-> next]

\* object member assignment: a repeated key keeps its place and takes the new value
put(members, key, value) ==
    IF \E k \in DOMAIN members : members[k][1] = key
    THEN [k \in DOMAIN members |->
             IF members[k][1] = key THEN <<key, value>> ELSE members[k]]
    ELSE Append(members, <<key, value>>)

\* JSON string body from i (after the opening quote): \" and \\ are the escapes
\* of the model's texts; a raw line break inside a string is a syntax error
RECURSIVE parseStringBody(_, _, _)
parseStringBody(text, i, acc) ==
    LET c == At(text, i)
    IN  IF c = "" \/ c = "\n" THEN Fail
        ELSE IF c = "\"" THEN Ok(acc, i + 1)
        ELSE IF c = "\\"
             THEN IF At(text, i + 1) \in {"\"", "\\"}
                  THEN parseStringBody(text, i + 2, Append(acc, At(text, i + 1)))
                  ELSE Fail
        ELSE parseStringBody(text, i + 1, Append(acc, c))

\* digits from i
RECURSIVE parseDigits(_, _, _)
parseDigits(text, i, acc) ==
    IF At(text, i) \in Digits
    THEN parseDigits(text, i + 1, 10 * acc + DigitValue(At(text, i)))
    ELSE Ok(JNum(acc), i)

Literal(text, i, word, value) ==
    IF i + Len(word) - 1 <= Len(text) /\ SubSeq(text, i, i + Len(word) - 1) = Chars(word)
    THEN Ok(value, i + Len(word))
    ELSE Fail

\* JSON value grammar: objects, arrays, strings, non-negative integers without
\* leading zeros, true, false, null
RECURSIVE parseValue(_, _)
RECURSIVE parseElements(_, _, _)
RECURSIVE parseMembers(_, _, _)

parseValue(text, i) ==
    LET c == At(text, i)
    IN  IF c = "{"
        THEN IF At(text, skipWs(text, i + 1)) = "}"
             THEN Ok(JObj(<<>>), skipWs(text, i + 1) + 1)
             ELSE parseMembers(text, skipWs(text, i + 1), <<>>)
        ELSE IF c = "["
        THEN IF At(text, skipWs(text, i + 1)) = "]"
             THEN Ok(JArr(<<>>), skipWs(text, i + 1) + 1)
             ELSE parseElements(text, skipWs(text, i + 1), <<>>)
        ELSE IF c = "\""
        THEN LET r == parseStringBody(text, i + 1, <<>>)
             IN  IF r.ok THEN Ok(JStr(r.value), r.next) ELSE Fail
        ELSE IF c = "0" THEN Ok(JNum(0), i + 1)
        ELSE IF c \in Digits THEN parseDigits(text, i, 0)
        ELSE IF c = "t" THEN Literal(text, i, "true", JBool(TRUE))
        ELSE IF c = "f" THEN Literal(text, i, "false", JBool(FALSE))
        ELSE IF c = "n" THEN Literal(text, i, "null", [null |-> TRUE])
        ELSE Fail

parseElements(text, i, acc) ==
    LET r == parseValue(text, i)
    IN  IF ~r.ok THEN Fail
        ELSE LET j == skipWs(text, r.next)
             IN  IF At(text, j) = ","
                 THEN parseElements(text, skipWs(text, j + 1), Append(acc, r.value))
                 ELSE IF At(text, j) = "]"
                 THEN Ok(JArr(Append(acc, r.value)), j + 1)
                 ELSE Fail

parseMembers(text, i, acc) ==
    IF At(text, i) # "\"" THEN Fail
    ELSE LET key == parseStringBody(text, i + 1, <<>>)
         IN  IF ~key.ok THEN Fail
             ELSE LET colon == skipWs(text, key.next)
                  IN  IF At(text, colon) # ":" THEN Fail
                      ELSE LET r == parseValue(text, skipWs(text, colon + 1))
                           IN  IF ~r.ok THEN Fail
                               ELSE LET j == skipWs(text, r.next)
                                        members == put(acc, key.value, r.value)
                                    IN  IF At(text, j) = ","
                                        THEN parseMembers(text, skipWs(text, j + 1), members)
                                        ELSE IF At(text, j) = "}"
                                        THEN Ok(JObj(members), j + 1)
                                        ELSE Fail

\* JSON.parse(text): the value, or a SyntaxError
SyntaxError == [threw |-> "SyntaxError"]

JSON_parse(text) ==
    LET r == parseValue(text, skipWs(text, 1))
    IN  IF r.ok /\ skipWs(text, r.next) > Len(text) THEN Returned(r.value) ELSE SyntaxError

\* JSON.stringify(value), without indentation
RECURSIVE stringify(_)
RECURSIVE stringifyAll(_, _)

escapeChars(chars) ==
    LET Esc(c) == IF c \in {"\"", "\\"} THEN <<"\\", c>> ELSE <<c>>
        F[i \in 0..Len(chars)] == IF i = 0 THEN <<>> ELSE F[i - 1] \o Esc(chars[i])
    IN  F[Len(chars)]

quoted(chars) == <<"\"">> \o escapeChars(chars) \o <<"\"">>

stringify(value) ==
    IF value = [null |-> TRUE] THEN Chars("null")
    ELSE IF "bool" \in DOMAIN value THEN (IF value.bool THEN Chars("true") ELSE Chars("false"))
    ELSE IF "num" \in DOMAIN value THEN Chars(ToString(value.num))
    ELSE IF "str" \in DOMAIN value THEN quoted(value.str)
    ELSE IF "arr" \in DOMAIN value
    THEN <<"[">> \o stringifyAll(value.arr, FALSE) \o <<"]">>
    ELSE <<"{">> \o stringifyAll(value.obj, TRUE) \o <<"}">>

\* the items (or key:value members) separated by commas
stringifyAll(items, keyed) ==
    IF items = <<>> THEN <<>>
    ELSE (IF keyed
          THEN quoted(items[1][1]) \o <<":">> \o stringify(items[1][2])
          ELSE stringify(items[1]))
         \o (IF Len(items) > 1 THEN <<",">> \o stringifyAll(Tail(items), keyed) ELSE <<>>)

\* Strategy 1
tryDirectParse(raw) ==
    LET parsed == JSON_parse(raw)
    IN  IF parsed = SyntaxError THEN Null ELSE parsed.returned

\* positions of ch in text
Positions(text, ch) == {i \in DOMAIN text : text[i] = ch}
Min(S) == CHOOSE x \in S : \A y \in S : x <= y

\* /```(?:json)?\s*\n?([\s\S]*?)```/.exec(raw): capture group 1, or no match.
\* The leftmost fence opens; "json" and then all whitespace after it are consumed
\* greedily; the capture runs to the next fence.
codeFenceMatch(raw) ==
    IF Positions(raw, Fence) = {} THEN Null
    ELSE LET open == Min(Positions(raw, Fence))
             afterTag == IF /\ open + 4 <= Len(raw)
                            /\ SubSeq(raw, open + 1, open + 4) = Chars("json")
                         THEN open + 5 ELSE open + 1
             from == skipWs(raw, afterTag)
             closing == {i \in Positions(raw, Fence) : i >= from}
         IN  IF closing = {} THEN Null
             ELSE Returned(SubSeq(raw, from, Min(closing) - 1))

\* Strategy 2: `if (!match?.[1]) return null` also drops an empty capture
tryCodeFenceParse(raw) ==
    LET match == codeFenceMatch(raw)
    IN  IF match = Null THEN Null
        ELSE IF match.returned = <<>> THEN Null
        ELSE tryDirectParse(trim(match.returned))

tryBracketScan_naive(raw, start, open, close, i, depth, inString, escaped) ==
    LET ends == {k \in start..Len(raw) :
                    Cardinality({j \in start..k : raw[j] = open})
                        = Cardinality({j \in start..k : raw[j] = close})}
    IN  IF ends = {} THEN Null ELSE Returned(SubSeq(raw, start, Min(ends)))

\* the for loop of tryBracketExtract from position i: the slice handed to
\* tryDirectParse, or null when the text ends first
RECURSIVE tryBracketScan(_, _, _, _, _, _, _, _)
tryBracketScan(raw, start, open, close, i, depth, inString, escaped) ==
    IF i > Len(raw) THEN Null
    ELSE LET ch == raw[i]
         IN  IF escaped
             THEN tryBracketScan(raw, start, open, close, i + 1, depth, inString, FALSE)
             ELSE IF ch = "\\"
             THEN tryBracketScan(raw, start, open, close, i + 1, depth, inString, TRUE)
             ELSE IF ch = "\""
             THEN tryBracketScan(raw, start, open, close, i + 1, depth, ~inString, FALSE)
             ELSE IF inString
             THEN tryBracketScan(raw, start, open, close, i + 1, depth, inString, FALSE)
             ELSE LET d == depth + (IF ch = open THEN 1 ELSE 0)
                                 - (IF ch = close THEN 1 ELSE 0)
                  IN  IF d = 0
                      THEN Returned(SubSeq(raw, start, i))
                      ELSE tryBracketScan(raw, start, open, close, i + 1, d, FALSE, FALSE)

\* the slice strategy 3 cuts out, or null: it starts at whichever of { and [
\* comes first
bracketSlice(raw) ==
    LET objs == Positions(raw, "{")
        arrs == Positions(raw, "[")
    IN  IF objs = {} /\ arrs = {} THEN Null
        ELSE IF arrs = {} \/ (objs # {} /\ Min(objs) < Min(arrs))
        THEN tryBracketScan(raw, Min(objs), "{", "}", Min(objs), 0, FALSE, FALSE)
        ELSE tryBracketScan(raw, Min(arrs), "[", "]", Min(arrs), 0, FALSE, FALSE)

\* Strategy 3
tryBracketExtract(raw) ==
    LET slice == bracketSlice(raw)
    IN  IF slice = Null THEN Null ELSE tryDirectParse(slice.returned)

\* the validators handed to parseJSON: type guards, total and boolean
Validators == {"any", "none", "isObject"}

validate(validator, obj) ==
    CASE validator = "any"      -> TRUE
      [] validator = "none"     -> FALSE
      [] validator = "isObject" -> "obj" \in DOMAIN obj

\* a ?? b ?? c
firstNonNull(a, b, c) == IF a # Null THEN a ELSE IF b # Null THEN b ELSE c

\* what parseJSON hands to validate, null when every strategy came back null
extracted(raw) ==
    LET trimmed == trim(raw)
    IN  firstNonNull(tryDirectParse(trimmed), tryCodeFenceParse(trimmed),
                     tryBracketExtract(trimmed))

parseJSON(raw, validator) ==
    LET parsed == extracted(raw)
    IN  IF parsed = Null
        THEN [success |-> FALSE,
              error |-> [raw |-> raw, kind |-> "invalid_json",
                         message |-> "Failed to extract valid JSON from LLM response."]]
        ELSE IF ~validate(validator, parsed)
        THEN [success |-> FALSE,
              error |-> [raw |-> raw, kind |-> "schema_mismatch",
                         message |-> "JSON parsed successfully but does not match expected schema."]]
        ELSE [success |-> TRUE, data |-> parsed]

(***************************************************************************)
(* SpecParse: one call of parseJSON on a response text built around a JSON *)
(* value, or on a text that holds none.                                    *)
(***************************************************************************)
Key(str) == Chars(str)

JsonValues ==
    { [null |-> TRUE], JBool(TRUE), JNum(42), JStr(Chars("ok")),
      JArr(<<>>),
      JArr(<<JNum(1), JStr(<<"]", "[">>)>>),
      JArr(<<JStr(<<Fence>>)>>),
      JObj(<<>>),
      JObj(<< <<Key("a"), JNum(1)>> >>),
      JObj(<< <<Key("a"), JStr(<<"}">>)>> >>),
      JObj(<< <<Key("a"), JStr(<<"x", "\"", "{", "\\">>)>>, <<Key("b"), [null |-> TRUE]>> >>),
      JObj(<< <<Key("a"), JObj(<< <<Key("b"), JArr(<<JNum(1), JStr(<<"}", "]">>)>>)>> >>)>> >>),
      JObj(<< <<Key("code"), JStr(<<Fence, "l", "s", Fence>>)>> >>) }

IsObject(value) == "obj" \in DOMAIN value
IsArray(value)  == "arr" \in DOMAIN value

\* how a response text is built around the serialization of a value
Forms ==
    {"bare", "padded", "fenced_json", "fenced_plain", "fenced_prose",
     "fenced_bracket_prose", "prose", "prose_quote", "bracket_prose", "truncated"}

FencedForms == {"fenced_json", "fenced_plain", "fenced_prose", "fenced_bracket_prose"}
ProseForms  == {"prose", "prose_quote"}

Build(form, value) ==
    LET text == stringify(value)
        block == <<Fence>> \o Chars("json\n") \o text \o <<"\n", Fence>>
    IN  CASE form = "bare"         -> text
          [] form = "padded"       -> <<" ", "\n">> \o text \o <<"\n", " ">>
          [] form = "fenced_json"  -> block
          [] form = "fenced_plain" -> <<Fence>> \o text \o <<Fence>>
          [] form = "fenced_prose" ->
                 Chars("Here is the result:\n") \o block \o Chars("\nLet me know.")
          [] form = "fenced_bracket_prose" ->
                 Chars("Result [draft 2]:\n") \o block
          [] form = "prose"        -> Chars("Sure, the answer is ") \o text \o Chars(" as asked.")
          [] form = "prose_quote"  ->
                 Chars("The \"answer\" \\ ") \o text \o Chars(" is \"final\".")
          [] form = "bracket_prose" -> Chars("[note] ") \o text
          [] form = "truncated"    -> SubSeq(text, 1, Len(text) - 1)

\* texts that are built around no value
OtherTexts ==
    { <<>>,
      Chars("I cannot answer that."),
      <<Fence>> \o Chars("json") \o <<Fence>>,
      <<Fence>> \o Chars("json\nnull\n") \o <<Fence>> \o Chars("\n{\"a\":1}"),
      Chars("{\"a\":1} and {\"b\":2}"),
      <<Fence>> \o Chars("{\"a\":1}") }

ParseInputs ==
    { [form |-> f, value |-> v, raw |-> Build(f, v)] : f \in Forms, v \in JsonValues }
    \cup { [form |-> "other", value |-> NoResult, raw |-> t] : t \in OtherTexts }

InitParse ==
    /\ \E i \in ParseInputs, validator \in Validators :
           psInput = [form |-> i.form, value |-> i.value, raw |-> i.raw,
                      validator |-> validator]
    /\ psResult = NoResult
    /\ clsTask = NoResult /\ clsResult = NoResult
    /\ RunIdle /\ ScopeIdle

\* parseJSON(raw, validate) returns; validate has been called when a value was
\* extracted
ParseCall ==
    /\ psResult = NoResult
    /\ psResult' =
           [returned |-> parseJSON(psInput.raw, psInput.validator),
            validated |-> IF extracted(psInput.raw) = Null
                          THEN <<>>
                          ELSE <<extracted(psInput.raw)>>]
    /\ UNCHANGED <<psInput, clsTask, clsResult, runVars, scopeVars>>

NextParse == ParseCall

SpecParse == InitParse /\ [][NextParse]_vars

(***************************************************************************)
(* Orchestrator and audit claims (Spec).                                   *)
(***************************************************************************)
Done(t) == pc[t] = "done"

\* every event the run handed to logEvent is in the task's file
NoAppendFault(t) == Len(stream[t]) = Len(issued[t])

IsAgentEvent(e, type, role) ==
    e.eventType = type /\ "agentId" \in DOMAIN e /\ e.data.role = role

\* begins with execution_start, ends with execution_end, and every agent_spawned
\* has exactly one later agent_destroyed with its agent id
AuditOrdered(s) ==
    /\ s # <<>>
    /\ s[1].eventType = "execution_start"
    /\ s[Len(s)].eventType = "execution_end"
    /\ \A i \in DOMAIN s :
           s[i].eventType = "agent_spawned" =>
               Cardinality({j \in DOMAIN s : /\ j > i
                                             /\ s[j].eventType = "agent_destroyed"
                                             /\ s[j].agentId = s[i].agentId}) = 1

Shape(s) ==
    [i \in DOMAIN s |->
        <<s[i].eventType, IF "agentId" \in DOMAIN s[i] THEN s[i].data.role ELSE "-">>]

Lifecycle(role) ==
    << <<"agent_spawned", role>>, <<"agent_execution_start", role>>,
       <<"agent_execution_end", role>>, <<"agent_destroyed", role>> >>

\* the sequences of docs/validation/m0-009-e2e-report.md
ExpectedShape(routedTo) ==
    << <<"execution_start", "-">>, <<"agent_spawned", "coordinator">>,
       <<"classification", "-">>, <<"agent_destroyed", "coordinator">> >>
    \o (IF routedTo = "product" THEN Lifecycle("product") ELSE << <<"product_skipped", "-">> >>)
    \o Lifecycle("dev") \o Lifecycle("qa")
    \o << <<"execution_end", "-">> >>

C8_LogEventNeverThrows == lastLog.outcome # "threw"

\* what the run returns when no audit write fails
FaultFreeResult(t) ==
    LET classification == classify(task[t])
        content(spec) == [spec EXCEPT !.specId = 0]
    IN  [classification |-> classification,
         specContent |-> IF classification.routedTo = "product"
                         THEN content(productSpec(task[t], 0))
                         ELSE content(buildInlineSpec(task[t], 0)),
         verdict |-> "pass"]

\* C9 as stated: whichever audit writes fail, the run executes every stage and
\* returns the classification, spec content, execution output and verdict of the
\* fault-free run.
C9_AuditFaultsNeverAbort ==
    \A t \in TaskIds :
        /\ pc[t] # "thrown"
        /\ Done(t) =>
               /\ result[t].classification = FaultFreeResult(t).classification
               /\ [result[t].intentSpec EXCEPT !.specId = 0] = FaultFreeResult(t).specContent
               /\ result[t].devOutput = devOutputOf(result[t].intentSpec)
               /\ result[t].validation.verdict = FaultFreeResult(t).verdict

IsPrefix(s, r) == Len(s) <= Len(r) /\ SubSeq(r, 1, Len(s)) = s

\* C10: the audit log is append-only: a successful logEvent call adds exactly
\* its record at the end of the stream of the event's task id, the records already
\* there keep their place, every other stream is unchanged; and no step shortens
\* or rewrites a stream.
C10_AppendOnly ==
    [][ /\ \A t \in TaskIds : IsPrefix(stream[t], stream'[t])
        /\ (lastLog'.n = lastLog.n + 1 /\ lastLog'.outcome = "appended") =>
               LET id == lastLog'.event.taskId
               IN  /\ stream'[id] = Append(stream[id], record(lastLog'.event))
                   /\ \A o \in TaskIds \ {id} : stream'[o] = stream[o]
      ]_vars

\* a record has been appended behind earlier ones while the other task's stream
\* holds records too
C10_Witness ==
    /\ lastLog.outcome = "appended"
    /\ Len(stream[lastLog.event.taskId]) >= 2
    /\ \E o \in TaskIds \ {lastLog.event.taskId} : stream[o] # <<>>

(***************************************************************************)
(* Interleaved runs (SpecInterleaved), sequential dispatch and stage       *)
(* faults (Spec).                                                          *)
(***************************************************************************)
\* the sequence of event types of the task's run when it runs alone
AloneShape(t) == ExpectedShape(classify(task[t]).routedTo)

InProgress(t) == pc[t] \notin {"idle", "done", "thrown"}

\* C11: when the runs of two tasks with different ids interleave in any order,
\* each task's stream holds only records carrying its own task id, the run issues
\* the event types of the task running alone, in the same order, all of them in
\* the stream when no append faulted, and the run returns the result of the task
\* running alone.
C11_InterleavedRunsIndependent ==
    \A t \in TaskIds :
        /\ \A i \in DOMAIN stream[t] : stream[t][i].taskId = t
        /\ IsPrefix(Shape(issued[t]), AloneShape(t))
        /\ NoAppendFault(t) => stream[t] = issued[t]
        /\ Done(t) =>
               /\ Shape(issued[t]) = AloneShape(t)
               /\ result[t].taskId = t
               /\ result[t].classification = FaultFreeResult(t).classification
               /\ [result[t].intentSpec EXCEPT !.specId = 0] = FaultFreeResult(t).specContent
               /\ result[t].devOutput = devOutputOf(result[t].intentSpec)
               /\ result[t].validation =
                      validationOf(result[t].intentSpec, result[t].devOutput)

\* both runs are past their classification at once, each with records written,
\* and one of them has been overtaken inside a stage
C11_Witness ==
    /\ \A t \in TaskIds : InProgress(t) /\ Len(stream[t]) >= 4
    /\ pc["t1"] = "dev_end" /\ pc["t2"] = "qa_end"

\* the agent ids that are active at the end of s: spawned and not destroyed since
Active(s) ==
    {s[i].agentId : i \in {k \in DOMAIN s :
        /\ s[k].eventType = "agent_spawned"
        /\ ~\E j \in (k + 1)..Len(s) :
               s[j].eventType = "agent_destroyed" /\ s[j].agentId = s[k].agentId}}

\* no agent_spawned in s comes while an agent is active, so at most one is
OneActiveAtATime(s) ==
    /\ Cardinality(Active(s)) <= 1
    /\ \A i \in DOMAIN s :
           s[i].eventType = "agent_spawned" => Active(SubSeq(s, 1, i - 1)) = {}

StageFaulted(t) ==
    /\ lastLog.outcome = "threw"
    /\ lastLog.event.taskId = t
    /\ lastLog.event.eventType \in {"classification", "agent_execution_start",
                                    "agent_execution_end"}

\* C20: when a stage throws during a run the run is left at that point without
\* a result: the events it issued are the alone-run sequence up to the faulting
\* call, no stage twice and none after it, no execution_end is written, and the
\* run does nothing more.
C20_StageFaultAborts ==
    /\ [](\A t \in TaskIds :
             /\ (lastLog.outcome = "threw" /\ lastLog.event.taskId = t) => pc[t] = "thrown"
             /\ pc[t] = "thrown" =>
                    /\ result[t] = NoResult
                    /\ IsPrefix(Shape(issued[t]), AloneShape(t))
                    /\ \A i \in DOMAIN stream[t] : stream[t][i].eventType # "execution_end")
    /\ [][\A t \in TaskIds :
             pc[t] = "thrown" =>
                 /\ pc'[t] = "thrown" /\ result'[t] = NoResult
                 /\ issued'[t] = issued[t] /\ stream'[t] = stream[t]]_vars

\* the dev stage threw after the coordinator and product stages had completed
C20_Witness ==
    \E t \in TaskIds :
        /\ StageFaulted(t) /\ pc[t] = "thrown"
        /\ lastLog.event.eventType = "agent_execution_end"
        /\ lastLog.event.data.role = "dev"
        /\ \E i \in DOMAIN issued[t] : IsAgentEvent(issued[t][i], "agent_destroyed", "product")

\* the entries of results whose status is status
CountStatus(results, status) ==
    Cardinality({i \in DOMAIN results : results[i].status = status})

\* pass only with every requirement passed, no constraint violated and no scope
\* violation; the summary counts what the report lists
VerdictConsistent(report) ==
    /\ report.verdict \in {"pass", "fail"}
    /\ CountStatus(report.requirementResults, "fail") > 0 => report.verdict = "fail"
    /\ report.verdict = "pass" =>
           /\ \A i \in DOMAIN report.requirementResults :
                  report.requirementResults[i].status = "pass"
           /\ CountStatus(report.constraintResults, "fail") = 0
           /\ report.scopeViolations = <<>>
    /\ report.summary.totalRequirements = Len(report.requirementResults)
    /\ report.summary.passedRequirements = CountStatus(report.requirementResults, "pass")
    /\ report.summary.failedRequirements = CountStatus(report.requirementResults, "fail")
    /\ report.summary.totalConstraints = Len(report.constraintResults)
    /\ report.summary.violatedConstraints = CountStatus(report.constraintResults, "fail")
    /\ report.summary.scopeViolationCount = Len(report.scopeViolations)

\* C19: in every ValidationReport a run returns a failed requirement result
\* comes with verdict fail, verdict pass comes with every requirement passed, no
\* constraint violated and no scope violation, and the summary counts are the
\* numbers of results listed; the report lists one result per requirement and
\* constraint of the spec it validated.
C19_VerdictConsistent ==
    \A t \in TaskIds :
        Done(t) =>
            /\ VerdictConsistent(result[t].validation)
            /\ Len(result[t].validation.requirementResults)
                   = Len(result[t].intentSpec.requirements)
            /\ Len(result[t].validation.constraintResults)
                   = Len(result[t].intentSpec.constraints)

\* a run has returned a pass report over two requirements and one constraint
C19_Witness ==
    \E t \in TaskIds :
        /\ Done(t)
        /\ result[t].validation.verdict = "pass"
        /\ result[t].validation.summary.totalRequirements = 2
        /\ result[t].validation.summary.totalConstraints = 1

\* the four stages of t's run have returned
StagesReturned(t) == pc[t] \in {"destroy_qa", "execution_end", "done"}

\* t's run handed execution_end to logEvent as its last event and returned the
\* aggregate of what its stages produced
ReturnedAggregate(t) ==
    LET last == issued[t][Len(issued[t])]
    IN  /\ Len(issued[t]) > 0
        /\ last.eventType = "execution_end"
        /\ last.taskId = t
        /\ last.data.verdict = result[t].validation.verdict
        /\ last.data.summary = result[t].validation.summary
        /\ result[t].taskId = t
        /\ result[t].classification = locals[t].classification
        /\ result[t].classification = classify(task[t])
        /\ result[t].intentSpec = locals[t].intentSpec
        /\ result[t].devOutput = locals[t].devOutput
        /\ result[t].validation = locals[t].validation
        /\ result[t].intentSpec.taskId = t
        /\ result[t].devOutput.taskId = t
        /\ result[t].validation.taskId = t
        /\ result[t].devOutput = devOutputOf(result[t].intentSpec)
        /\ result[t].validation = validationOf(result[t].intentSpec, result[t].devOutput)

\* C21: every run whose stages have returned eventually hands execution_end to
\* the audit log and returns; the execution_end event carries the verdict and
\* the summary of the returned validation report, and the returned aggregate
\* holds the classification, spec, execution output and validation report of
\* that run, all with the run's task id.
C21_RunEndsAndReturns ==
    /\ \A t \in TaskIds : StagesReturned(t) ~> Done(t)
    /\ [](\A t \in TaskIds : Done(t) => ReturnedAggregate(t))

\* what holds of the runs that do return
C21_ReturnedAggregate == \A t \in TaskIds : Done(t) => ReturnedAggregate(t)

\* the classification events among events
ClassificationEvents(events) ==
    {i \in DOMAIN events : events[i].eventType = "classification"}

\* payload and result name the same decision
SameDecision(data, returned) ==
    /\ data.category = returned.category
    /\ data.routedTo = returned.routedTo
    /\ data.confidence = returned.confidence
    /\ data.ruleApplied = returned.ruleApplied

\* the logEvent call that has just ended is the one inside classify, for task t
ClassifyCalled(t) ==
    /\ lastLog.n > 0
    /\ lastLog.event.eventType = "classification"
    /\ lastLog.event.taskId = t

\* C22: every call of classify appends exactly one classification event to the
\* task's audit stream, with or without a type hint, and classify returns the
\* result whose category, route, confidence and rule identifier that event's
\* payload carries.
C22_OneClassificationEvent ==
    \A t \in TaskIds :
        ClassifyCalled(t) =>
            /\ Cardinality(ClassificationEvents(stream[t])) = 1
            /\ locals[t].classification # NoResult
            /\ \A i \in ClassificationEvents(stream[t]) :
                   SameDecision(stream[t][i].data, locals[t].classification)

\* what holds of the calls that return: one classification event was handed to
\* logEvent, carrying the returned decision
C22_OneIssuedWhenReturned ==
    \A t \in TaskIds :
        locals[t].classification # NoResult =>
            /\ Cardinality(ClassificationEvents(issued[t])) = 1
            /\ \A i \in ClassificationEvents(issued[t]) :
                   /\ SameDecision(issued[t][i].data, locals[t].classification)
                   /\ locals[t].classification = classify(task[t])

\* t's run took the dev route and has handed its spec to the execution stage
DevRouteExecuting(t) ==
    /\ locals[t].classification # NoResult
    /\ locals[t].classification.routedTo = "dev"
    /\ \E i \in DOMAIN issued[t] : IsAgentEvent(issued[t][i], "agent_execution_start", "dev")

SkipEvents(events) == {i \in DOMAIN events : events[i].eventType = "product_skipped"}

\* C23: on the dev route the IntentSpec handed to the execution stage is built
\* from the task body: one requirement whose description is the task body, no
\* constraint, one out-of-scope entry, one assumption; the one product_skipped
\* event carries the reason and that spec's id, which is the spec id the
\* execution stage was started with and the spec id of the returned execution
\* output and validation report.
C23_InlineSpec ==
    \A t \in TaskIds :
        DevRouteExecuting(t) =>
            LET intentSpec == locals[t].intentSpec
            IN  /\ intentSpec.taskId = t
                /\ intentSpec.objective = task[t].body
                /\ Len(intentSpec.requirements) = 1
                /\ intentSpec.requirements[1].description = task[t].body
                /\ Len(intentSpec.constraints) = 0
                /\ Len(intentSpec.outOfScope) = 1
                /\ Len(intentSpec.assumptions) = 1
                /\ Cardinality(SkipEvents(issued[t])) = 1
                /\ \A i \in SkipEvents(issued[t]) :
                       /\ issued[t][i].data.reason =
                              "Classification routed directly to dev. Technical input does not require disambiguation."
                       /\ issued[t][i].data.inlineSpecId = intentSpec.specId
                /\ \A i \in DOMAIN issued[t] :
                       IsAgentEvent(issued[t][i], "agent_execution_start", "dev")
                           => issued[t][i].data.specId = intentSpec.specId
                /\ Done(t) =>
                       /\ result[t].intentSpec = intentSpec
                       /\ result[t].devOutput.specId = intentSpec.specId
                       /\ result[t].validation.specId = intentSpec.specId

\* a run on the dev route has returned, its product_skipped line in the stream
C23_Witness ==
    \E t \in TaskIds :
        /\ Done(t) /\ DevRouteExecuting(t)
        /\ SkipEvents(stream[t]) # {}
        /\ result[t].validation.specId = result[t].intentSpec.specId

\* t's task is the one of end-to-end scenario 2
IsScenario2(t) == task[t].body = Scenario2 /\ task[t].type = "undefined"

\* the product stage of t's run has executed
ProductExecuted(t) ==
    \E i \in DOMAIN issued[t] : IsAgentEvent(issued[t][i], "agent_execution_end", "product")

\* scenario 2 apart from the category: routed to product, the product stage
\* executes, no product_skipped, verdict pass
Scenario2Routed(t) ==
    /\ locals[t].classification # NoResult => locals[t].classification.routedTo = "product"
    /\ SkipEvents(issued[t]) = {}
    /\ Done(t) => /\ ProductExecuted(t)
                  /\ result[t].validation.verdict = "pass"

\* C24: end-to-end scenario 2, the body "We need to prioritize the onboarding
\* experience for Q3" without a type hint, is classified business and routed to
\* product, the product stage executes, no product_skipped event is logged and
\* the final verdict is pass.
C24_Scenario2 ==
    \A t \in TaskIds :
        IsScenario2(t) =>
            /\ locals[t].classification # NoResult =>
                   locals[t].classification.category = "business"
            /\ Scenario2Routed(t)

\* what the code does with scenario 2: no pattern matches, category ambiguous
C24_Scenario2Ambiguous ==
    \A t \in TaskIds :
        IsScenario2(t) =>
            /\ countMatches(task[t].body, BUSINESS_PATTERNS) = 0
            /\ countMatches(task[t].body, TECHNICAL_PATTERNS) = 0
            /\ locals[t].classification # NoResult =>
                   locals[t].classification.category = "ambiguous"
            /\ Scenario2Routed(t)

(***************************************************************************)
(* Classifier claims (SpecClassify).                                       *)
(***************************************************************************)
Classified == clsResult # NoResult
TechScore  == countMatches(clsTask.body, TECHNICAL_PATTERNS)
BizScore   == countMatches(clsTask.body, BUSINESS_PATTERNS)

\* C4: with an operator type hint the hint alone decides: technical gives
\* technical_explicit / dev, product gives business / product, ambiguous gives
\* ambiguous / product, always with confidence deterministic, whatever the body.
C4_HintAloneDecides ==
    (Classified /\ clsTask.type # "undefined") =>
        LET r == clsResult.returned
        IN  /\ r.confidence = "deterministic"
            /\ clsTask.type = "technical" =>
                   r.category = "technical_explicit" /\ r.routedTo = "dev"
            /\ clsTask.type = "product" =>
                   r.category = "business" /\ r.routedTo = "product"
            /\ clsTask.type = "ambiguous" =>
                   r.category = "ambiguous" /\ r.routedTo = "product"

\* a hint of technical on a body whose patterns say business, and the reverse
C4_Witness ==
    /\ Classified
    /\ \/ clsTask.type = "technical" /\ BizScore > TechScore
       \/ clsTask.type = "product" /\ TechScore > BizScore
    /\ clsResult.returned.routedTo = (IF clsTask.type = "technical" THEN "dev" ELSE "product")

\* C5: with no hint, dev (technical_explicit) only on a strictly greater
\* technical score; business / product when the business score is at least 1 and
\* at least the technical score; ambiguous / product when both are 0; confidence
\* heuristic throughout.
C5_TieBreak ==
    (Classified /\ clsTask.type = "undefined") =>
        LET r == clsResult.returned
        IN  /\ r.confidence = "heuristic"
            /\ r.routedTo = "dev" => (TechScore > BizScore /\ r.category = "technical_explicit")
            /\ r.category = "technical_explicit" => r.routedTo = "dev"
            /\ (BizScore >= 1 /\ BizScore >= TechScore) =>
                   r.category = "business" /\ r.routedTo = "product"
            /\ (TechScore = 0 /\ BizScore = 0) =>
                   r.category = "ambiguous" /\ r.routedTo = "product"

\* an equal, non-zero score on both sides has been classified
C5_Witness ==
    /\ Classified /\ clsTask.type = "undefined"
    /\ TechScore = BizScore /\ TechScore >= 1
    /\ clsResult.returned.routedTo = "product"

(***************************************************************************)
(* Scope claims (SpecScope).                                               *)
(***************************************************************************)
\* the call has ended; it has returned a scope
Called   == scope # NoResult
Resolved == Called /\ scope # TypeError

NetworkDenied == ~manifest.permissions.allowNetwork.isArray
                 /\ manifest.permissions.allowNetwork.value = FALSE
Tagged(cap) == {t \in DOMAIN TOOL_CAPABILITY_MAP : cap \in TOOL_CAPABILITY_MAP[t]}

\* the tools the claim says are removed
Removed ==
    (IF NetworkDenied THEN Tagged("network") ELSE {})
    \cup (IF manifest.permissions.allowFilesystem THEN {} ELSE Tagged("filesystem"))

\* s with the members of gone struck out, order kept
RECURSIVE Without(_, _)
Without(s, gone) ==
    IF s = <<>> THEN <<>>
    ELSE (IF Head(s) \in gone THEN <<>> ELSE <<Head(s)>>) \o Without(Tail(s), gone)

\* C6: the effective tools are the manifest's tools, in order, minus the
\* network-tagged ones when allowNetwork is false and minus the filesystem-tagged
\* ones when allowFilesystem is false; a subset of the manifest's tools; a tool
\* outside the capability table is always kept.
C6_EffectiveTools ==
    Called =>
        /\ Resolved
        /\ scope.effectiveTools = Without(manifest.tools, Removed)
        /\ Range(scope.effectiveTools) \subseteq Range(manifest.tools)
        /\ \A i \in DOMAIN manifest.tools :
               manifest.tools[i] \notin DOMAIN TOOL_CAPABILITY_MAP =>
                   manifest.tools[i] \in Range(scope.effectiveTools)

\* both permissions off, an untabled tool beside a tagged one: only the first stays
C6_Witness ==
    /\ Resolved /\ NetworkDenied /\ ~manifest.permissions.allowFilesystem
    /\ \E i, j \in DOMAIN manifest.tools :
           /\ manifest.tools[i] \notin DOMAIN TOOL_CAPABILITY_MAP
           /\ manifest.tools[j] \in Tagged("filesystem")
    /\ Len(scope.effectiveTools) < Len(manifest.tools)
    /\ scope.effectiveTools # <<>>

\* C7: the network policy is the manifest's domain list when allowNetwork is a
\* list and none when it is true or false; the filesystem policy is workspace
\* when allowFilesystem is true and none when it is false.
C7_Policies ==
    Resolved =>
        LET allow == manifest.permissions.allowNetwork
        IN  /\ allow.isArray =>
                   scope.networkPolicy = [kind |-> "domains", list |-> allow.value]
            /\ ~allow.isArray => scope.networkPolicy = [kind |-> "none"]
            /\ scope.filesystemPolicy =
                   (IF manifest.permissions.allowFilesystem THEN "workspace" ELSE "none")

\* allowNetwork true has been resolved, and so has an explicit list
C7_Witness ==
    /\ Resolved
    /\ ~manifest.permissions.allowNetwork.isArray
    /\ manifest.permissions.allowNetwork.value = TRUE
    /\ scope.networkPolicy.kind = "none"
    /\ manifest.permissions.allowFilesystem /\ scope.filesystemPolicy = "workspace"

(***************************************************************************)
(* Spawn claims (SpecSpawn).                                               *)
(***************************************************************************)
Succeeded(c) == c.outcome # TypeError /\ c.outcome.returned.success

\* C13 as stated: spawnAgent never throws; it returns system_prompt_missing with
\* the manifest's role exactly when the contract text cannot be read, and
\* otherwise a ready SpawnedAgent with the resolved scope of the manifest and the
\* manifest and task it was given.
C13_SpawnNeverThrows ==
    \A i \in DOMAIN spawned :
        LET c == spawned[i]
        IN  /\ c.outcome # TypeError
            /\ ~c.readable =>
                   /\ ~c.outcome.returned.success
                   /\ c.outcome.returned.error.kind = "system_prompt_missing"
                   /\ c.outcome.returned.error.manifestRole = c.manifest.role
            /\ c.readable =>
                   /\ c.outcome.returned.success
                   /\ c.outcome.returned.agent.status = "ready"
                   /\ c.outcome.returned.agent.manifest = c.manifest
                   /\ c.outcome.returned.agent.task = c.task
                   /\ c.outcome.returned.agent.scope =
                          resolveScope(c.manifest,
                                       filterTools(c.manifest.tools,
                                                   c.manifest.permissions).returned)

\* C14 as stated: any two successful spawns return different agent ids and
\* different workspace paths.
C14_AgentIdsUnique ==
    \A i, j \in DOMAIN spawned :
        (i # j /\ Succeeded(spawned[i]) /\ Succeeded(spawned[j])) =>
            /\ spawned[i].outcome.returned.agent.agentId
                   # spawned[j].outcome.returned.agent.agentId
            /\ spawned[i].outcome.returned.agent.workspacePath
                   # spawned[j].outcome.returned.agent.workspacePath

(***************************************************************************)
(* Parser claims (SpecParse).                                              *)
(***************************************************************************)
Parsed == psResult # NoResult

\* what JSON.parse makes of the trimmed text, of the fenced block and of the
\* bracket slice: each a returned value or a SyntaxError (no text: SyntaxError)
DirectValue == JSON_parse(trim(psInput.raw))

FenceValue ==
    LET match == codeFenceMatch(trim(psInput.raw))
    IN  IF match = Null THEN SyntaxError ELSE JSON_parse(trim(match.returned))

BracketValue ==
    LET slice == bracketSlice(trim(psInput.raw))
    IN  IF slice = Null THEN SyntaxError ELSE JSON_parse(slice.returned)

\* the strategies' values in the order they are tried
FirstExtracted ==
    IF DirectValue # SyntaxError THEN DirectValue
    ELSE IF FenceValue # SyntaxError THEN FenceValue
    ELSE BracketValue

\* C15 as stated: whenever the trimmed text is itself valid JSON, for every JSON
\* value, the directly parsed value is the one handed to the validator and it
\* decides the outcome.
C15_DirectParseDecides ==
    (Parsed /\ DirectValue # SyntaxError) =>
        /\ psResult.validated = <<DirectValue.returned>>
        /\ IF validate(psInput.validator, DirectValue.returned)
           THEN psResult.returned = [success |-> TRUE, data |-> DirectValue.returned]
           ELSE /\ ~psResult.returned.success
                /\ psResult.returned.error.kind = "schema_mismatch"

\* C16 as stated: parseJSON returns invalid_json exactly when none of the three
\* strategies extracts a JSON value, schema_mismatch exactly when a value was
\* extracted and the validator rejected it, success exactly when a value was
\* extracted and the validator accepted it, with data equal to that value.
C16_ThreeOutcomes ==
    Parsed =>
        LET r == psResult.returned
        IN  IF FirstExtracted = SyntaxError
            THEN ~r.success /\ r.error.kind = "invalid_json"
            ELSE IF validate(psInput.validator, FirstExtracted.returned)
            THEN r = [success |-> TRUE, data |-> FirstExtracted.returned]
            ELSE ~r.success /\ r.error.kind = "schema_mismatch"

\* C17: for a text of bracket-free prose around one JSON object, whatever braces,
\* brackets, escaped quotes or backslashes its string values hold, strategy 3
\* cuts the slice from the object's opening brace to its closing brace and
\* extracts exactly that object, and parseJSON hands that object to the validator.
C17_BracketExtraction ==
    (Parsed /\ psInput.form \in ProseForms /\ IsObject(psInput.value)) =>
        /\ bracketSlice(trim(psInput.raw)) = Returned(stringify(psInput.value))
        /\ tryBracketExtract(trim(psInput.raw)) = psInput.value
        /\ psResult.validated = <<psInput.value>>

\* an object whose string holds an escaped quote, an opening brace and a
\* backslash has been extracted from the prose around it
C17_Witness ==
    /\ Parsed /\ psInput.form = "prose_quote" /\ IsObject(psInput.value)
    /\ \E k \in DOMAIN psInput.value.obj :
           /\ "str" \in DOMAIN psInput.value.obj[k][2]
           /\ {"\"", "{", "\\"} \subseteq Range(psInput.value.obj[k][2].str)
    /\ psInput.validator = "isObject"
    /\ psResult.returned = [success |-> TRUE, data |-> psInput.value]

\* C18 as stated: for every JSON object or array value, parseJSON applied to a
\* text that embeds its serialization in a fenced code block, with or without the
\* json tag and with prose around it, extracts a value equal to it.
C18_FenceRoundTrip ==
    (Parsed /\ psInput.form \in FencedForms
            /\ (IsObject(psInput.value) \/ IsArray(psInput.value))) =>
        psResult.validated = <<psInput.value>>

\* C29: a resolved scope grants no network reach that its network policy
\* denies: when the resolved networkPolicy is none, from allowNetwork false or
\* from allowNetwork true, no effective tool is tagged network.
C29_NoNetworkToolUnderNone ==
    (Resolved /\ scope.networkPolicy.kind = "none") =>
        \A i \in DOMAIN scope.effectiveTools :
            scope.effectiveTools[i] \notin Tagged("network")

\* what holds: under allowNetwork false no effective tool is tagged network
C29_NoNetworkToolWhenFalse ==
    (Resolved /\ NetworkDenied) =>
        \A i \in DOMAIN scope.effectiveTools :
            scope.effectiveTools[i] \notin Tagged("network")

(***************************************************************************)
(* Instruction assembly claims (SpecSpawn).                                *)
(***************************************************************************)
\* part occurs in line
Contains(line, part) ==
    \E i \in 1..(Len(line) - Len(part) + 1) : SubSeq(line, i, i + Len(part) - 1) = part

\* as strings, text begins with prefix
TextStartsWith(text, prefix) ==
    LET k == Len(prefix)
    IN  /\ Len(text) >= k
        /\ \A i \in 1..(k - 1) : text[i] = prefix[i]
        /\ StartsWith(text[k], prefix[k])

\* text begins with the lines of prefix, whole
BeginsWithLines(text, prefix) ==
    /\ Len(text) >= Len(prefix)
    /\ SubSeq(text, 1, Len(prefix)) = prefix

\* after line from, text states the network policy, the filesystem policy, the
\* effective tools, the time limit and the cost cap of sc, in this order
ConstraintsStated(text, from, sc) ==
    LET LinesWith(heading) ==
            {i \in (from + 1)..Len(text) : StartsWith(text[i], heading)}
        Only(S) == CHOOSE i \in S : TRUE
        N  == LinesWith("**Network access:**")
        F  == LinesWith("**Filesystem access:**")
        P  == LinesWith("**Permitted tools:**")
        TL == LinesWith("**Execution time limit:**")
        CC == LinesWith("**Cost cap:**")
    IN  /\ \A S \in {N, F, P, TL, CC} : Cardinality(S) = 1
        /\ LET n == Only(N)  f == Only(F)  p == Only(P)  tl == Only(TL)  cc == Only(CC)
           IN  /\ n < f /\ f < p /\ p + Len(sc.effectiveTools) < tl /\ tl < cc
               /\ IF sc.networkPolicy.kind = "none"
                  THEN Contains(text[n], "DENIED")
                  ELSE /\ ~Contains(text[n], "DENIED")
                       /\ text[n] = "**Network access:** RESTRICTED. Permitted domains: "
                                        \o join(sc.networkPolicy.list, ", ") \o "."
               /\ IF sc.filesystemPolicy = "workspace"
                  THEN Contains(text[f], "./workspace") /\ ~Contains(text[f], "DENIED")
                  ELSE Contains(text[f], "DENIED")
               /\ text[p] = "**Permitted tools:**"
               /\ \A i \in DOMAIN sc.effectiveTools :
                      text[p + i] = "  - " \o sc.effectiveTools[i]
               /\ text[p + Len(sc.effectiveTools) + 1]
                      = (IF sc.effectiveTools = <<>> THEN "  (none)" ELSE "")
               /\ text[tl] = "**Execution time limit:** " \o ToString(sc.maxExecutionTime) \o "ms"
               /\ text[cc] = "**Cost cap:** " \o ToString(sc.maxCostCap) \o " tokens"

\* the constraints are stated after line from and the enforcement notice
\* follows them
BlockThenNotice(text, from, sc) ==
    /\ ConstraintsStated(text, from, sc)
    /\ \E e \in (from + 1)..Len(text) :
           /\ text[e] = "## Enforcement Notice"
           /\ \A k \in e..Len(text) : ~StartsWith(text[k], "**")

\* the contract text spawned[i] read
ContractOf(c) == contractText(c.manifest.systemPromptPath)

\* C25 as stated: the assembled instruction text starts with the contract text
\* exactly as read, then comes the constraints block stating network policy,
\* filesystem policy, effective tools, time limit and cost cap, then the
\* enforcement notice.
C25_ContractVerbatimFirst ==
    \A i \in DOMAIN spawned :
        Succeeded(spawned[i]) =>
            LET agent == spawned[i].outcome.returned.agent
            IN  /\ TextStartsWith(agent.systemPrompt, ContractOf(spawned[i]))
                /\ BlockThenNotice(agent.systemPrompt, Len(trimEnd(ContractOf(spawned[i]))),
                                   agent.scope)

\* C25: the assembled instruction text is the contract text without the blanks
\* and line feeds at its end, an empty line, then the constraints block stating
\* network policy, filesystem policy, effective tools, time limit and cost cap,
\* then the enforcement notice.
C25_ContractTrimmedFirst ==
    \A i \in DOMAIN spawned :
        Succeeded(spawned[i]) =>
            LET agent == spawned[i].outcome.returned.agent
                contract == trimEnd(ContractOf(spawned[i]))
            IN  /\ BeginsWithLines(agent.systemPrompt, contract \o <<"", "---">>)
                /\ contract[Len(contract)] = "Source: " \o spawned[i].manifest.systemPromptPath
                /\ BlockThenNotice(agent.systemPrompt, Len(contract) + 1, agent.scope)

\* an agent was spawned from a contract file that ends with a line of blanks,
\* with a domain list and a tool left
C25_Witness ==
    \E i \in DOMAIN spawned :
        /\ Succeeded(spawned[i])
        /\ fsReadable[spawned[i].manifest.systemPromptPath] = <<"  ", "">>
        /\ spawned[i].outcome.returned.agent.scope.networkPolicy.kind = "domains"
        /\ spawned[i].outcome.returned.agent.scope.effectiveTools # <<>>

\* C26: the time and cost limits are carried through unchanged: the resolved
\* scope of every spawned agent has the maxExecutionTime and maxCostCap of the
\* manifest's permissions, and the assembled instruction text states these two
\* values, once each.
C26_LimitsCarriedThrough ==
    \A i \in DOMAIN spawned :
        Succeeded(spawned[i]) =>
            LET agent == spawned[i].outcome.returned.agent
                permissions == spawned[i].manifest.permissions
                text == agent.systemPrompt
                TimeLines == {k \in DOMAIN text : Contains(text[k], "time limit")}
                CostLines == {k \in DOMAIN text : Contains(text[k], "Cost cap")}
            IN  /\ agent.scope.maxExecutionTime = permissions.maxExecutionTime
                /\ agent.scope.maxCostCap = permissions.maxCostCap
                /\ Cardinality(TimeLines) = 1
                /\ \A k \in TimeLines :
                       text[k] = "**Execution time limit:** "
                                     \o ToString(permissions.maxExecutionTime) \o "ms"
                /\ Cardinality(CostLines) = 1
                /\ \A k \in CostLines :
                       text[k] = "**Cost cap:** " \o ToString(permissions.maxCostCap) \o " tokens"

\* agents of two manifests with different limits were spawned
C26_Witness ==
    \E i, j \in DOMAIN spawned :
        /\ Succeeded(spawned[i]) /\ Succeeded(spawned[j])
        /\ spawned[i].outcome.returned.agent.scope.maxExecutionTime = 600000
        /\ spawned[j].outcome.returned.agent.scope.maxExecutionTime = 30000
        /\ spawned[i].outcome.returned.agent.scope.maxCostCap
               # spawned[j].outcome.returned.agent.scope.maxCostCap

(***************************************************************************)
(* The shape validators (src/core/llm/validators.ts) on parsed JSON        *)
(* values.  A property that is absent reads as undefined.                  *)
(***************************************************************************)
Undefined == [undefined |-> TRUE]

\* obj[name]
prop(obj, name) ==
    LET hits == {k \in DOMAIN obj.obj : obj.obj[k][1] = Key(name)}
    IN  IF hits = {} THEN Undefined ELSE obj.obj[CHOOSE k \in hits : TRUE][2]

\* a ?? b
coalesce(a, b) == IF a \in {Null, Undefined} THEN b ELSE a

isString(v) == "str" \in DOMAIN v

\* isIntentRequirement, isIntentConstraint, isIntentAssumption: an object whose
\* named properties are strings
isObjectWithStrings(v, names) ==
    IsObject(v) /\ \A name \in names : isString(prop(v, name))

isStringArray(v) == IsArray(v) /\ \A i \in DOMAIN v.arr : isString(v.arr[i])

isIntentSpec_listsUnchecked(obj) ==
    /\ IsObject(obj)
    /\ isString(prop(obj, "specId")) \/ isString(prop(obj, "spec_id"))
    /\ isString(prop(obj, "taskId")) \/ isString(prop(obj, "task_id"))
    /\ isString(prop(obj, "objective"))
    /\ LET reqs == prop(obj, "requirements")
       IN  /\ IsArray(reqs)
           /\ \A i \in DOMAIN reqs.arr :
                  isObjectWithStrings(reqs.arr[i], {"id", "description", "verification"})
    /\ isStringArray(coalesce(prop(obj, "outOfScope"), prop(obj, "out_of_scope")))

isIntentSpec(obj) ==
    /\ IsObject(obj)
    /\ isString(prop(obj, "specId")) \/ isString(prop(obj, "spec_id"))
    /\ isString(prop(obj, "taskId")) \/ isString(prop(obj, "task_id"))
    /\ isString(prop(obj, "objective"))
    /\ LET reqs == prop(obj, "requirements")
       IN  /\ IsArray(reqs)
           /\ \A i \in DOMAIN reqs.arr :
                  isObjectWithStrings(reqs.arr[i], {"id", "description", "verification"})
           /\ Len(reqs.arr) # 0
    /\ LET cons == prop(obj, "constraints")
       IN  /\ IsArray(cons)
           /\ \A i \in DOMAIN cons.arr :
                  isObjectWithStrings(cons.arr[i], {"id", "description"})
    /\ LET oos == coalesce(prop(obj, "outOfScope"), prop(obj, "out_of_scope"))
       IN  /\ isStringArray(oos)
           /\ Len(oos.arr) # 0
    /\ LET asms == prop(obj, "assumptions")
       IN  /\ IsArray(asms)
           /\ \A i \in DOMAIN asms.arr :
                  isObjectWithStrings(asms.arr[i], {"id", "statement", "source"})

\* the object with the named string properties
StringsObject(names) ==
    JObj([i \in 1..Len(names) |-> <<Key(names[i]), JStr(Chars("x"))>>])

\* an object literal: the properties given as undefined are absent
ObjectOf(members) == JObj(SelectSeq(members, LAMBDA m : m[2] # Undefined))

\* what JSON.parse(JSON.stringify(spec)) is for a spec of the pipeline: the
\* strings of the lists matter to the validator only as strings
asJson(spec) ==
    ObjectOf(<< <<Key("specId"), JStr(Chars("spec-0-a3f2"))>>,
                <<Key("taskId"), JStr(Chars(spec.taskId))>>,
                <<Key("objective"), JStr(Chars("objective"))>>,
                <<Key("requirements"),
                  JArr([i \in DOMAIN spec.requirements |->
                           StringsObject(<<"id", "description", "verification">>)])>>,
                <<Key("constraints"),
                  JArr([i \in DOMAIN spec.constraints |->
                           StringsObject(<<"id", "description">>)])>>,
                <<Key("outOfScope"),
                  JArr([i \in DOMAIN spec.outOfScope |-> JStr(Chars("x"))])>>,
                <<Key("assumptions"),
                  JArr([i \in DOMAIN spec.assumptions |->
                           StringsObject(<<"id", "statement", "source">>)])>>,
                <<Key("contextRefs"), JArr(<<>>)>> >>)

\* candidate objects: every way of giving, emptying, misnaming or mistyping the
\* two lists, with camelCase or snake_case ids
IntentSpecCandidates ==
    LET requirement == StringsObject(<<"id", "description", "verification">>)
        text == JStr(Chars("x"))
    IN  { ObjectOf(<< <<Key(ids[1]), text>>, <<Key(ids[2]), text>>,
                      <<Key("objective"), text>>,
                      <<Key("requirements"), reqs>>,
                      <<Key("constraints"), JArr(<<>>)>>,
                      <<Key("outOfScope"), oos>>,
                      <<Key("out_of_scope"), oosSnake>>,
                      <<Key("assumptions"), JArr(<<>>)>> >>) :
            ids \in {<<"specId", "taskId">>, <<"spec_id", "task_id">>},
            reqs \in {Undefined, Null, JArr(<<>>), JArr(<<requirement>>),
                      JArr(<<requirement, StringsObject(<<"id">>)>>)},
            oos \in {Undefined, Null, JArr(<<>>), JArr(<<text>>), JArr(<<JNum(1)>>)},
            oosSnake \in {Undefined, JArr(<<>>), JArr(<<text>>)} }

\* the list a property holds, empty when it holds none
ListOf(v) == IF IsArray(v) THEN v.arr ELSE <<>>

\* the validator accepts no candidate whose requirements list is empty or whose
\* out-of-scope list, under the name it is read by, is empty
ValidatorRejectsEmptyLists ==
    \A c \in IntentSpecCandidates :
        isIntentSpec(c) =>
            /\ ListOf(prop(c, "requirements")) # <<>>
            /\ ListOf(coalesce(prop(c, "outOfScope"), prop(c, "out_of_scope"))) # <<>>
            /\ prop(c, "outOfScope") # JArr(<<>>)

\* some candidate with full lists is accepted, under either naming
ValidatorAcceptsSome ==
    /\ \E c \in IntentSpecCandidates : isIntentSpec(c) /\ isString(prop(c, "spec_id"))
    /\ \E c \in IntentSpecCandidates :
           isIntentSpec(c) /\ prop(c, "outOfScope") = Undefined

\* t's run has handed its spec to the execution stage
Executing(t) ==
    \E i \in DOMAIN issued[t] : IsAgentEvent(issued[t][i], "agent_execution_start", "dev")

\* C27: no IntentSpec with an empty requirements list or an empty out-of-scope
\* list reaches the execution stage, on the dev route (inline spec) or on the
\* product route, and isIntentSpec accepts the specs that reach it and no
\* object whose requirements or out-of-scope list is empty.
C27_NoEmptySpecExecutes ==
    /\ \A t \in TaskIds :
           Executing(t) =>
               /\ locals[t].intentSpec # NoResult
               /\ Len(locals[t].intentSpec.requirements) > 0
               /\ Len(locals[t].intentSpec.outOfScope) > 0
               /\ isIntentSpec(asJson(locals[t].intentSpec))
               /\ ~isIntentSpec(asJson([locals[t].intentSpec EXCEPT !.requirements = <<>>]))
               /\ ~isIntentSpec(asJson([locals[t].intentSpec EXCEPT !.outOfScope = <<>>]))
    /\ ValidatorRejectsEmptyLists

\* both routes have handed a spec to the execution stage
C27_Witness ==
    /\ \E t \in TaskIds :
           Executing(t) /\ locals[t].classification.routedTo = "dev"
    /\ \E t \in TaskIds :
           Executing(t) /\ locals[t].classification.routedTo = "product"
    /\ ValidatorAcceptsSome

\* C28: scope resolution and instruction assembly are pure: any two calls with
\* the same manifest and the same contract text return the same resolved scope
\* and the same instruction text, whatever the clock and the random bytes; no
\* call appends an audit event, and the manifest each call returns in the agent
\* is the manifest it was given.
C28_SpawnPure ==
    /\ \A i, j \in DOMAIN spawned :
           (Succeeded(spawned[i]) /\ Succeeded(spawned[j])
                /\ spawned[i].manifest = spawned[j].manifest) =>
               /\ spawned[i].outcome.returned.agent.scope
                      = spawned[j].outcome.returned.agent.scope
               /\ spawned[i].outcome.returned.agent.systemPrompt
                      = spawned[j].outcome.returned.agent.systemPrompt
    /\ \A i \in DOMAIN spawned :
           Succeeded(spawned[i]) =>
               spawned[i].outcome.returned.agent.manifest = spawned[i].manifest
    /\ \A t \in TaskIds : stream[t] = <<>> /\ issued[t] = <<>>
    /\ lastLog = NoCall /\ stderr = 0

\* the same manifest was spawned twice, at different clock values and with
\* different random bytes
C28_Witness ==
    \E i, j \in DOMAIN spawned :
        /\ i # j
        /\ Succeeded(spawned[i]) /\ Succeeded(spawned[j])
        /\ spawned[i].manifest = spawned[j].manifest
        /\ spawned[i].outcome.returned.agent.scope.networkPolicy.kind = "domains"
        /\ spawned[i].outcome.returned.agent.createdAt
               # spawned[j].outcome.returned.agent.createdAt
        /\ spawned[i].outcome.returned.agent.agentId.suffix
               # spawned[j].outcome.returned.agent.agentId.suffix

\* C30: the two instruction builders agree: for every manifest spawnAgent
\* resolves, the text loadSystemPrompt builds for it states the effective tools,
\* the network policy (denied or the domain list), the filesystem policy and
\* the time and cost limits of the resolved scope; and the loader's tool filter
\* throws exactly when spawnAgent's does.
C30_BuildersAgree ==
    \A i \in DOMAIN spawned :
        LET c == spawned[i]
        IN  /\ c.readable => (c.outcome = TypeError <=> c.loaded = TypeError)
            /\ Succeeded(c) =>
                   /\ "returned" \in DOMAIN c.loaded
                   /\ ConstraintsStated(c.loaded.returned,
                                        Len(trimEnd(ContractOf(c))) + 1,
                                        c.outcome.returned.agent.scope)

\* both builders ran on a manifest that lost a network tool to allowNetwork
\* false, and on one with a domain list
C30_Witness ==
    /\ \E i \in DOMAIN spawned :
           /\ Succeeded(spawned[i]) /\ "returned" \in DOMAIN spawned[i].loaded
           /\ \E k \in DOMAIN spawned[i].manifest.tools :
                  /\ spawned[i].manifest.tools[k] \in Tagged("network")
                  /\ \A n \in DOMAIN spawned[i].outcome.returned.agent.scope.effectiveTools :
                         spawned[i].outcome.returned.agent.scope.effectiveTools[n]
                             # spawned[i].manifest.tools[k]
    /\ \E i \in DOMAIN spawned :
           /\ Succeeded(spawned[i]) /\ "returned" \in DOMAIN spawned[i].loaded
           /\ spawned[i].outcome.returned.agent.scope.networkPolicy.kind = "domains"

====
